---- MODULE Spec2Model ----
(***************************************************************************)
(* Constructo: the agent control loop (src/src/ai/agent.py), the Deep      *)
(* Reasoning engine (src/src/ai/deep_reasoning.py) and the helpers they    *)
(* use, as a state machine.                                                *)
(*                                                                         *)
(* Text is a sequence of tokens.  The tokens that the parsing code looks   *)
(* at are kept apart: "{" and "}", a whitespace run "ws", the fence        *)
(* markers "fence_json" (three backticks followed by json) and "fence"     *)
(* (three backticks), a word of prose "p", and a JSON object body (a name  *)
(* of EnvOf).  Every other token is a literal the code produces (an error  *)
(* message, a fixed reply).                                                *)
(***************************************************************************)
EXTENDS Integers, Sequences, FiniteSets, TLC

VARIABLES
    config,               \* AIAgent.config, fixed at construction
    pc,                   \* where process_command is suspended
    current_task,         \* AIAgent.current_task is set
    current_command,      \* AIAgent._current_command: <<>> while the attribute is unset
    user_input,           \* the argument of the running process_command
    env,                  \* parsed_response of the running execute_step
    last_action,          \* AIAgent._last_action: <<>> while the attribute is unset
    consecutive_failures, \* DeepReasoning.consecutive_failures
    generation_config,    \* AIAgent.generation_config (temperature, top_p, top_k)
    context_history,      \* ContextManager.context_history
    send,                 \* the _send_message_with_retry call in flight
    persp_idx,            \* deep_analyze: position in self.perspectives
    perspectives_results, \* deep_analyze: perspectives_results
    original_config,      \* deep_analyze: the local original_config, <<>> while unbound
    confirmation,         \* execute_step: the local confirmation, "none" while unset
    result,               \* what the last process_command returned
    n_queries,            \* _send_message_with_retry calls begun since construction
    deep_entries,         \* deep_analyze calls of the running process_command
    must_cancel,          \* the task was cancelled while it was not suspended
    waiter_cancelled,     \* the sleep the task is suspended in was cancelled
    sleep_done,           \* that sleep's timer has run and the task is not yet resumed
    interrupted_in,       \* the blocking call the task was in when it was cancelled
    sigterm_sent,         \* interrupt_current_process has signalled the running command
    fell_back,            \* execute_step was called again after deep reasoning failed
    max_context_length,   \* ContextManager.max_context_length
    appended,             \* every entry add_to_context was called with, in order
    requests_per_minute,  \* RateLimiter.requests_per_minute
    delay_between_requests, \* RateLimiter.delay_between_requests, in seconds
    request_times,        \* RateLimiter.request_times, a deque(maxlen=requests_per_minute)
    last_request_time,    \* RateLimiter.last_request_time: <<>> while None
    request_count,        \* RateLimiter.request_count
    now,                  \* what datetime.now() returns, in seconds
    rl_pc,                \* where wait_if_needed_async is suspended
    wake_at,              \* the time before which the running asyncio.sleep cannot return
    grants,               \* the times at which wait_if_needed_async calls returned
    rl_outcome,           \* how the last call of the limiter ended
    fenced_text,        \* process_response: a reply that holds JSON in a fenced block
    unwrapped_text,       \* the same JSON given to process_response as it is
    parsed_fenced,               \* what process_response makes of fenced_text, <<>> before
    parsed_unwrapped,     \* what process_response makes of unwrapped_text, <<>> before
    co_pc,                \* concurrent callers: where each one's wait_if_needed_async is
    co_wake_at,           \* concurrent callers: the time each one's sleep was asked to end
    n_calls,              \* chat.send_message calls made by the retry wrapper on its own
    last_error,           \* _send_message_with_retry: the local last_error, as text
    retry_wake_at,        \* _send_message_with_retry: the time its sleep was asked to end
    rendered              \* what get_current_context returned last, called on its own

agent_vars == << config, pc, current_task, current_command, user_input, env, last_action,
           consecutive_failures, generation_config, context_history, send, persp_idx,
           perspectives_results, original_config, confirmation, result,
           n_queries, deep_entries, must_cancel, waiter_cancelled, sleep_done, interrupted_in, sigterm_sent, fell_back >>

limiter_vars == << requests_per_minute, delay_between_requests, request_count, request_times,
                   last_request_time, now, rl_pc, wake_at, grants, rl_outcome >>

parser_vars == << fenced_text, unwrapped_text, parsed_fenced, parsed_unwrapped >>

task_vars == << co_pc, co_wake_at >>

retry_vars == << last_error, retry_wake_at >>

\* What a call of wait_if_needed_async changes
query_vars == << request_times, last_request_time, now, rl_pc, wake_at, grants,
                rl_outcome, must_cancel, waiter_cancelled, sleep_done >>

vars == << agent_vars, limiter_vars, max_context_length, appended, parser_vars,
           task_vars, n_calls, retry_vars, rendered >>

-----------------------------------------------------------------------------
(* Bounds of the model *)

MaxQueries == 4

\* The Context Log on its own: capacities 0..MaxCapacity, MaxAppends appends
MaxCapacity == 3
MaxAppends == 5

\* The rate limiter on its own: the clock moves Tick seconds at a time up to MaxTime,
\* and MaxCalls calls are granted
Tick == 20
MaxTime == 200
MaxCalls == 4

-----------------------------------------------------------------------------
(* Text *)

RECURSIVE LStrip(_)
LStrip(t) == IF t # <<>> /\ Head(t) = "ws" THEN LStrip(Tail(t)) ELSE t

RECURSIVE RStrip(_)
RStrip(t) ==
    IF t # <<>> /\ t[Len(t)] = "ws" THEN RStrip(SubSeq(t, 1, Len(t) - 1)) ELSE t

\* str.strip()
Strip(t) == RStrip(LStrip(t))

\* str.find / str.rfind for a one-token needle, 1-based; 0 when absent
Find(t, tok) ==
    IF \E i \in 1..Len(t) : t[i] = tok
    THEN CHOOSE i \in 1..Len(t) : t[i] = tok /\ \A j \in 1..(i - 1) : t[j] # tok
    ELSE 0

RFind(t, tok) ==
    IF \E i \in 1..Len(t) : t[i] = tok
    THEN CHOOSE i \in 1..Len(t) : t[i] = tok /\ \A j \in (i + 1)..Len(t) : t[j] # tok
    ELSE 0

\* The first fence closer at or after position i: "fence" matches the token "fence" and
\* the first three characters of "fence_json".
RECURSIVE FindCloser(_, _)
FindCloser(t, i) ==
    IF i > Len(t) THEN 0
    ELSE IF t[i] \in {"fence", "fence_json"} THEN i
    ELSE FindCloser(t, i + 1)

\* re.sub of a json-fenced block by its content (agent.py:343)
RECURSIVE FenceSub(_)
FenceSub(t) ==
    LET i == Find(t, "fence_json")
        j == IF i = 0 THEN 0 ELSE FindCloser(t, i + 1)
    IN  IF i = 0 \/ j = 0 THEN t
        ELSE SubSeq(t, 1, i - 1)
             \o LStrip(SubSeq(t, i + 1, j - 1))
             \o FenceSub((IF t[j] = "fence_json" THEN <<"p">> ELSE <<>>)
                         \o SubSeq(t, j + 1, Len(t)))

\* _extract_json: the slice from the first "{" to the last "}", or ValueError
ExtractJson(text) ==
    LET t == Strip(text)
        start == Find(t, "{")
        end == RFind(t, "}")
    IN  IF start > 0 /\ end > 0
        THEN [ok |-> TRUE, text |-> SubSeq(t, start, end)]
        ELSE [ok |-> FALSE, text |-> <<>>]

-----------------------------------------------------------------------------
(* Decision envelopes: the dicts json.loads yields from the model's replies *)

NoStep(tag) ==
    [tag |-> tag, command |-> <<>>, risk |-> "absent", requires_confirmation |-> FALSE]

Step(command, risk, confirm) ==
    [tag |-> "obj", command |-> command, risk |-> risk, requires_confirmation |-> confirm]

NoCtx(tag) == [tag |-> tag, complexity |-> "absent", impact_scope |-> "absent"]

Ctx(complexity, impact) ==
    [tag |-> "obj", complexity |-> complexity, impact_scope |-> impact]

Envelope(type, message, analysis, step, deep, ctx, cont) ==
    [type |-> type, message |-> message, analysis |-> analysis, next_step |-> step,
     requires_deep_reasoning |-> deep, reasoning_context |-> ctx, continue |-> cont]

NoEnvelope ==
    Envelope("none", <<>>, <<>>, NoStep("absent"), FALSE, NoCtx("absent"), FALSE)

\* The JSON object bodies the model oracle may send.
Bodies ==
    { "msg", "msg_cont", "analysis_null", "cmd", "cmd_cont", "cmd_medium",
      "cmd_high", "deep", "msg_json_cont" }

EnvOf(b) ==
    CASE b = "msg" ->
            Envelope("response", <<"p">>, <<>>, NoStep("absent"), FALSE,
                     NoCtx("absent"), FALSE)
      [] b = "msg_cont" ->
            Envelope("response", <<"p", "ws", "p">>, <<>>, NoStep("absent"), FALSE,
                     NoCtx("absent"), TRUE)
      [] b = "analysis_null" ->
            Envelope("analysis", <<>>, <<"p", "ws">>, NoStep("null"), FALSE,
                     NoCtx("absent"), FALSE)
      [] b = "cmd" ->
            Envelope("command", <<"p">>, <<>>, Step(<<"c1">>, "low", FALSE), FALSE,
                     NoCtx("absent"), FALSE)
      [] b = "cmd_cont" ->
            Envelope("command", <<>>, <<>>, Step(<<"c1">>, "low", TRUE), FALSE,
                     NoCtx("absent"), TRUE)
      [] b = "cmd_medium" ->
            Envelope("command", <<"p">>, <<>>, Step(<<"c2">>, "Medium", TRUE), FALSE,
                     NoCtx("absent"), TRUE)
      [] b = "cmd_high" ->
            Envelope("command", <<"p">>, <<>>, Step(<<"c3">>, "high", TRUE), FALSE,
                     NoCtx("absent"), FALSE)
      [] b = "deep" ->
            Envelope("analysis", <<"p">>, <<>>, NoStep("absent"), TRUE,
                     Ctx("high", "high"), FALSE)
      [] b = "msg_json_cont" ->
            Envelope("response", <<"{", "cmd", "}">>, <<>>, NoStep("absent"), FALSE,
                     NoCtx("absent"), TRUE)

Json(b) == <<"{", b, "}">>

\* The replies of the model oracle: JSON, JSON in a fence, JSON after prose, prose.
Replies ==
    { Json(b) : b \in Bodies }
    \cup { <<"fence_json", "ws", "{", "ws", "cmd", "}", "ws", "fence">>,
           <<"p", "ws", "{", "msg", "}", "ws">>,
           <<"ws", "p", "ws", "p", "ws">>,
           <<"p", "ws", "{", "p", "}", "ws">>,
           <<"p", "{">> }

\* The dict of the text {}: every key is absent
EmptyDict ==
    Envelope("absent", <<>>, <<>>, NoStep("absent"), FALSE, NoCtx("absent"), FALSE)

\* The characters a body stands for: the envelope written by json.dumps with the
\* keys in the order of Envelope, absent keys left out, p being the word "word"
\* and ws one space.
BodyChars(b) ==
    CASE b = "msg" -> 90
      [] b = "msg_cont" -> 94
      [] b = "analysis_null" -> 111
      [] b = "cmd" -> 168
      [] b = "cmd_cont" -> 147
      [] b = "cmd_medium" -> 169
      [] b = "cmd_high" -> 168
      [] b = "deep" -> 158
      [] b = "msg_json_cont" -> 279

\* len() of one token
Chars(tok) ==
    CASE tok \in {"{", "}", "ws"} -> 1
      [] tok = "p" -> 4
      [] tok = "fence" -> 3
      [] tok = "fence_json" -> 7
      [] tok \in Bodies -> BodyChars(tok)
      [] OTHER -> Len(tok)

\* The number of characters before token i
RECURSIVE Offset(_, _)
Offset(t, i) == IF i <= 1 THEN 0 ELSE Offset(t, i - 1) + Chars(t[i - 1])

\* json.decoder.WHITESPACE.match(s, i).end()
RECURSIVE SkipWs(_, _)
SkipWs(t, i) == IF i <= Len(t) /\ t[i] = "ws" THEN SkipWs(t, i + 1) ELSE i

\* str(e) of the JSONDecodeError raised at character pos of a text of one line
JsonError(msg, pos) ==
    <<msg \o ": line 1 column " \o ToString(pos + 1) \o " (char " \o ToString(pos) \o ")">>

\* json.loads: the dict of the text, or the JSONDecodeError.  Whitespace is skipped
\* before the value, inside the braces and after the value; a body begins with the
\* string "type", which is a JSON value of six characters.
JsonLoads(t) ==
    LET Failed(msg, pos) == [ok |-> FALSE, env |-> NoEnvelope, error |-> JsonError(msg, pos)]
        Ends(e, i) == \* the value has ended before token i
            LET k == SkipWs(t, i)
            IN  IF k > Len(t) THEN [ok |-> TRUE, env |-> e, error |-> <<>>]
                ELSE Failed("Extra data", Offset(t, k))
        i0 == SkipWs(t, 1)
        i1 == SkipWs(t, i0 + 1)
        i2 == SkipWs(t, i1 + 1)
    IN  IF i0 > Len(t) THEN Failed("Expecting value", Offset(t, i0))
        ELSE IF t[i0] \in Bodies THEN Failed("Extra data", Offset(t, i0) + 6)
        ELSE IF t[i0] # "{" THEN Failed("Expecting value", Offset(t, i0))
        ELSE IF i1 > Len(t) \/ t[i1] \notin Bodies \cup {"}"}
             THEN Failed("Expecting property name enclosed in double quotes",
                         Offset(t, i1))
        ELSE IF t[i1] = "}" THEN Ends(EmptyDict, i1 + 1)
        ELSE IF i2 > Len(t) \/ t[i2] # "}"
             THEN Failed("Expecting ',' delimiter", Offset(t, i2))
        ELSE Ends(EnvOf(t[i1]), i2 + 1)

\* Literals of the code
NoValidJson == <<"No valid JSON found in response">>
AlreadyCompleted == <<"Action already completed.">>
CanceledByUser == <<"Operation canceled by user.">>
AlreadyProcessing == <<"Command already being processed. Please wait.">>
CancelledResult == <<"Command cancelled by user">>
CompletedOk == <<"Command completed successfully">>
NoneHasNoGet == <<"'NoneType' object has no attribute 'get'">>

\* process_response, lines 343-345 and 352-356: the envelope of a text, or the
\* string the turn ends with.
ParseResponse(text) ==
    LET clean == FenceSub(text)
        x == ExtractJson(clean)
        j == JsonLoads(x.text)
    IN  IF ~x.ok THEN [kind |-> "final", env |-> NoEnvelope, text |-> NoValidJson]
        ELSE IF ~j.ok THEN [kind |-> "final", env |-> NoEnvelope, text |-> Strip(clean)]
        ELSE [kind |-> "env", env |-> j.env, text |-> <<>>]

-----------------------------------------------------------------------------
(* Policies *)

\* AIAgent.risk_levels with dict.get's default
RiskRank(r, default) ==
    CASE r = "none" -> 0
      [] r = "low" -> 1
      [] r = "medium" -> 2
      [] r = "high" -> 3
      [] OTHER -> default

\* str.lower() of a word that names a risk level; any other word of the model is
\* in lower case already
Lower(w) ==
    CASE w \in {"None", "NONE"} -> "none"
      [] w \in {"Low", "LOW"} -> "low"
      [] w \in {"Medium", "MEDIUM"} -> "medium"
      [] w \in {"High", "HIGH"} -> "high"
      [] OTHER -> w

\* AIAgent._needs_confirmation
NeedsConfirmationGE(risk_level) ==
    /\ config.require_confirmation
    /\ RiskRank(Lower(risk_level), 0) >= RiskRank(Lower(config.risk_threshold), 2)

NeedsConfirmation(risk_level) ==
    /\ config.require_confirmation
    /\ RiskRank(Lower(risk_level), 0) > RiskRank(Lower(config.risk_threshold), 2)

\* DeepReasoning.should_activate: "true", "false", or "raise" where it calls .get
\* on None.
ShouldActivate(e) ==
    IF config.debug_mode THEN "true"
    ELSE IF e.requires_deep_reasoning THEN "true"
    ELSE IF consecutive_failures >= config.failure_threshold THEN "true"
    ELSE IF config.high_risk_commands /\ e.next_step.tag = "null" THEN "raise"
    ELSE IF config.high_risk_commands /\ e.next_step.risk = "high" THEN "true"
    ELSE IF e.reasoning_context.tag = "null" THEN "raise"
    ELSE IF \/ e.reasoning_context.complexity = "high"
            \/ e.reasoning_context.impact_scope = "high" THEN "true"
    ELSE "false"

-----------------------------------------------------------------------------
(* Configuration *)

\* model.temperature 0.7, top_p 0.9 (in tenths), top_k 40: agent.py:36-38
DefaultGeneration == [temperature |-> 7, top_p |-> 9, top_k |-> 40]

\* One entry of deep_reasoning.perspectives.  mapping = FALSE: the entry is not a
\* mapping (a perspective written without settings loads as None).  A key that is
\* not given is <<>>.
Conservative == [mapping |-> TRUE, temperature |-> <<3>>, top_p |-> <<>>, top_k |-> <<20>>]
Creative == [mapping |-> TRUE, temperature |-> <<9>>, top_p |-> <<10>>, top_k |-> <<>>]
Unset == [mapping |-> FALSE, temperature |-> <<>>, top_p |-> <<>>, top_k |-> <<>>]

Cfg(confirm, threshold, high_risk, perspectives) ==
    [ require_confirmation |-> confirm,   \* agent.require_confirmation
      risk_threshold |-> threshold,       \* agent.risk_threshold
      debug_mode |-> FALSE,               \* deep_reasoning.debug_mode
      failure_threshold |-> 2,            \* activation_triggers.consecutive_failures
      high_risk_commands |-> high_risk,   \* activation_triggers.high_risk_commands
      perspectives |-> perspectives,      \* deep_reasoning.perspectives
      max_attempts |-> 2,                 \* api.retry.max_attempts
      delay_between_retries |-> 1,        \* api.retry.delay_between_retries, seconds
      requests_per_minute |-> 30,         \* api.rate_limit.requests_per_minute
      delay_between_requests |-> 1 ]      \* api.rate_limit.delay_between_requests, seconds

\* The same configuration with other limits under the key api
WithApi(cfg, rpm, delay, retry_delay) ==
    [cfg EXCEPT !.requests_per_minute = rpm,
                !.delay_between_requests = delay,
                !.delay_between_retries = retry_delay]

\* The configurations the agent is constructed with
Configs ==
    { Cfg(TRUE, "medium", TRUE, <<Conservative, Creative>>),
      Cfg(TRUE, "medium", FALSE, <<Conservative, Unset>>),
      Cfg(TRUE, "none", FALSE, <<Unset>>),
      [Cfg(FALSE, "medium", FALSE, <<Conservative>>) EXCEPT !.max_attempts = 1] }

Inputs == {"u1", "u2"}

\* Time is in whole seconds.  In a turn the clock moves in a sleep, which returns
\* at the time asked for, and in a command; chat.send_message, the confirmation
\* prompt and the time between two turns take less than a second.

\* What LinuxInteraction.run_command may return, and the whole seconds the call
\* lasted
CmdResults ==
    { [stdout |-> <<"out", "ws">>, stderr |-> <<>>, returncode |-> 0, seconds |-> 0],
      [stdout |-> <<"ws">>, stderr |-> <<>>, returncode |-> 0, seconds |-> 0],
      [stdout |-> <<>>, stderr |-> <<"err", "ws">>, returncode |-> 1, seconds |-> 0],
      [stdout |-> <<"out", "ws">>, stderr |-> <<"err", "ws">>, returncode |-> 0,
       seconds |-> 1],
      [stdout |-> <<>>, stderr |-> <<>>, returncode |-> 1, seconds |-> 1] }

\* What run_command may return once interrupt_current_process has sent SIGTERM to
\* the group of the running command (linux_interaction.py:88-94): the exit code -15
\* with what the command had written before the signal, or, when the shell had
\* ended already (a background job held the pipes) or handles the signal, what a
\* command returns that ran to its end
KilledResults ==
    CmdResults \cup
    { [stdout |-> <<>>, stderr |-> <<>>, returncode |-> -15, seconds |-> 0],
      [stdout |-> <<>>, stderr |-> <<"err", "ws">>, returncode |-> -15, seconds |-> 0],
      [stdout |-> <<"out", "ws">>, stderr |-> <<>>, returncode |-> -15, seconds |-> 1] }

\* str(e) of what chat.send_message raises, or of the ValueError of line 120
ApiErrors == {"429 quota exceeded", "connection reset", "Empty response from API"}

\* str(e) of what wait_if_needed_async raises when requests_per_minute is 0
LimiterErrorText == "deque index out of range"

\* line 126: "429" in error_msg or "quota" in error_msg.lower()
IsRateLimit(err) == err \in {"429 quota exceeded"}

-----------------------------------------------------------------------------
(* The state machine *)

\* The default of max_context_length, which AIAgent uses (context_manager.py:4)
MaxContextLength == 10

\* A log that drops the new entry, not the oldest one, when it is full
AddToContextDropsNewest(history, entry) ==
    IF Len(history) >= max_context_length THEN history ELSE Append(history, entry)

\* ContextManager.add_to_context: append, then pop(0) when the log is too long
AddToContext(history, entry) ==
    LET h == Append(history, entry)
    IN  IF Len(h) > max_context_length THEN Tail(h) ELSE h

\* timedelta(minutes=1), in seconds
Minute == 60

\* The limits the limiter is constructed with
Rpms == 0..2
Delays == {0, 20, 80}

\* api.retry.delay_between_retries where the limiter is studied on its own
RetryDelay == 40

\* The comparison of line 25 the wrong way round
TooSoonReversed(time_since_last, delay) == time_since_last > delay

\* line 25
TooSoon(time_since_last, delay) == time_since_last < delay

\* A cap that is noticed one request too late
CapReachedLate(times, rpm) == Len(times) > rpm

\* line 38
CapReached(times, rpm) == Len(times) >= rpm

\* A prune that removes nothing
PruneOldKeepsAll(times, current_time) == times

\* lines 34-35: timestamps older than a minute leave the deque at its left end
RECURSIVE PruneOld(_, _)
PruneOld(times, current_time) ==
    IF times # <<>> /\ current_time - Head(times) > Minute
    THEN PruneOld(Tail(times), current_time)
    ELSE times

\* An append that puts the new timestamp at the left end (appendleft)
AppendLeftMaxlen(times, t, n) ==
    IF n = 0 THEN <<>>
    ELSE IF Len(times) >= n THEN <<t>> \o SubSeq(times, 1, Len(times) - 1)
    ELSE <<t>> \o times

\* deque(maxlen=n).append
AppendMaxlen(times, t, n) ==
    IF n = 0 THEN <<>>
    ELSE IF Len(times) >= n THEN Append(Tail(times), t)
    ELSE Append(times, t)

\* RateLimiter.__init__
LimiterInit(rpm, delay) ==
    /\ requests_per_minute = rpm
    /\ delay_between_requests = delay
    /\ request_times = <<>>
    /\ last_request_time = <<>>
    /\ request_count = 0
    /\ now = 0
    /\ rl_pc = "idle"
    /\ wake_at = 0
    /\ grants = <<>>
    /\ rl_outcome = "none"

\* ContextManager.__init__
LogInit(max_length) ==
    /\ max_context_length = max_length
    /\ context_history = <<>>
    /\ appended = <<>>

\* get_current_context has not been called
NoRender == [text |-> <<>>, appends |-> 0, again |-> FALSE]

\* The tasks that may call the rate limiter at the same time
Coroutines == {"a", "b"}

\* No concurrent caller is inside wait_if_needed_async
TasksIdle ==
    /\ co_pc = [c \in Coroutines |-> "idle"]
    /\ co_wake_at = [c \in Coroutines |-> 0]
    /\ n_calls = 0
    /\ last_error = "none"
    /\ retry_wake_at = 0
    /\ rendered = NoRender

\* No text is given to process_response on its own
ParserIdle ==
    /\ fenced_text = <<>>
    /\ unwrapped_text = <<>>
    /\ parsed_fenced = <<>>
    /\ parsed_unwrapped = <<>>

\* The terminal the constructor finds under the name UnifiedTerminal (agent.py:49):
\* the class of core/terminal.py, which has no set_interrupt_handler, or a terminal
\* that has the method
Terminals == {"UnifiedTerminal", "InterruptibleTerminal"}

\* AIAgent.__init__ and DeepReasoning.__init__, the configuration being given.  With
\* the terminal of core/terminal.py line 75 raises AttributeError: there is no agent
\* and nothing can be called.
AgentInit(terminal) ==
    /\ pc = IF terminal = "InterruptibleTerminal" THEN "idle" ELSE "no_agent"
    /\ current_task = FALSE
    /\ current_command = <<>>
    /\ user_input = ""
    /\ env = NoEnvelope
    /\ last_action = <<>>
    /\ consecutive_failures = 0
    /\ generation_config = DefaultGeneration
    /\ send = [purpose |-> "none", attempt |-> 0, prompt |-> <<>>, reply |-> <<>>]
    /\ persp_idx = 0
    /\ perspectives_results = <<>>
    /\ original_config = <<>>
    /\ confirmation = "none"
    /\ result = <<>>
    /\ n_queries = 0
    /\ deep_entries = 0
    /\ must_cancel = FALSE
    /\ waiter_cancelled = FALSE
    /\ sleep_done = FALSE
    /\ interrupted_in = "none"
    /\ sigterm_sent = FALSE
    /\ fell_back = FALSE

Init ==
    /\ config \in Configs
    /\ \E terminal \in Terminals : AgentInit(terminal)
    /\ LogInit(MaxContextLength)
    \* agent.py:54-58
    /\ LimiterInit(config.requests_per_minute, config.delay_between_requests)
    /\ ParserIdle
    /\ TasksIdle

\* The task is suspended in an asyncio.sleep.  A task that was cancelled while it
\* was running (current_task.cancel(), agent.py:147, called during a blocking call)
\* has the sleep cancelled as it begins, and is no longer marked
Suspends ==
    /\ waiter_cancelled' = must_cancel
    /\ must_cancel' = FALSE
    /\ sleep_done' = FALSE

\* The task runs on without being suspended
RunsOn ==
    /\ sleep_done' = FALSE
    /\ UNCHANGED << must_cancel, waiter_cancelled >>

\* wait_if_needed_async, lines 47-49, at time t: the call returns and the attempt
\* goes on to chat.send_message
LimiterRecord(t, times) ==
    /\ request_times' = AppendMaxlen(times, t, requests_per_minute)
    /\ last_request_time' = <<t>>
    /\ grants' = Append(grants, t)
    /\ rl_pc' = "idle"
    /\ rl_outcome' = "returned"
    /\ wake_at' = 0
    /\ pc' = "send"
    /\ RunsOn

\* The loop of lines 38-45 at time t, entered or re-entered with the deque being
\* times: it sleeps (the task is suspended), raises IndexError on an empty deque
\* (the handler of line 122 takes it) or goes on
LimiterCapLoop(t, times) ==
    IF CapReached(times, requests_per_minute)
    THEN IF times = <<>>
         THEN /\ rl_pc' = "idle"
              /\ rl_outcome' = "raised"
              /\ wake_at' = 0
              /\ pc' = "send"
              /\ RunsOn
              /\ request_times' = times
              /\ UNCHANGED << last_request_time, grants >>
         ELSE LET wait_time == times[1] + Minute - t
              IN  IF wait_time > 0
                  THEN /\ rl_pc' = "sleep_cap"
                       /\ rl_outcome' = "running"
                       /\ wake_at' = t + wait_time
                       /\ pc' = "limiter"
                       /\ Suspends
                       /\ request_times' = times
                       /\ UNCHANGED << last_request_time, grants >>
                  ELSE LimiterRecord(t, times)
    ELSE LimiterRecord(t, times)

\* One turn of the loop of lines 21-29 at time t, and lines 31-49 when the loop is
\* left
LimiterDelayLoop(t) ==
    IF /\ last_request_time # <<>>
       /\ TooSoon(t - last_request_time[1], delay_between_requests)
    THEN /\ rl_pc' = "sleep_delay"
         /\ rl_outcome' = "running"
         /\ wake_at' = t + (delay_between_requests - (t - last_request_time[1]))
         /\ pc' = "limiter"
         /\ Suspends
         /\ UNCHANGED << request_times, last_request_time, grants >>
    ELSE LimiterCapLoop(t, PruneOld(request_times, t))

\* line 115 at time t: the attempt awaits wait_if_needed_async, which runs to its
\* first sleep or to its end
Attempt(t) ==
    /\ Len(grants) < MaxQueries
    /\ now' = t
    /\ LimiterDelayLoop(t)

\* No call of wait_if_needed_async, the time being t
NoQuery(t) ==
    /\ now' = t
    /\ UNCHANGED << request_times, last_request_time, rl_pc, wake_at, grants,
                    rl_outcome, must_cancel, waiter_cancelled, sleep_done >>

\* A call of _send_message_with_retry begins at time t: agent.py:106-115
StartSendAt(purpose, prompt, t) ==
    /\ n_queries < MaxQueries
    /\ n_queries' = n_queries + 1
    /\ send' = [purpose |-> purpose, attempt |-> 0, prompt |-> prompt, reply |-> <<>>]
    /\ Attempt(t)

StartSend(purpose, prompt) == StartSendAt(purpose, prompt, now)

NoSend == [purpose |-> "none", attempt |-> 0, prompt |-> <<>>, reply |-> <<>>]

\* A return that skips the finally of line 369
ReturnsLeavesTask(text) ==
    /\ pc' = "idle"
    /\ result' = Strip(text)
    /\ current_task' = current_task
    /\ env' = NoEnvelope

\* process_command returns: lines 359 and 369
Returns(text) ==
    /\ pc' = "idle"
    /\ result' = Strip(text)
    /\ current_task' = FALSE
    /\ env' = NoEnvelope

\* execute_step is entered with parsed_response e
Enter(e) ==
    /\ pc' = "decide"
    /\ env' = e
    /\ UNCHANGED << result, current_task >>

\* execute_step returns (res, cont) to process_response: lines 347-351, and
\* process_response's handlers, lines 352-356
StepReturns(res, cont) ==
    IF cont /\ res # <<>>
    THEN LET r == ParseResponse(res)
         IN  IF r.kind = "env" THEN Enter(r.env) ELSE Returns(r.text)
    ELSE Returns(res)

\* DeepReasoning.record_result
RecordResult(success) ==
    consecutive_failures' = IF success THEN 0 ELSE consecutive_failures + 1

\* process_command, lines 152-174
Submit(u) ==
    /\ pc = "idle"
    /\ UNCHANGED << interrupted_in, sigterm_sent >>
    /\ fell_back' = FALSE
    /\ IF current_command = <<u>>
       THEN /\ Returns(AlreadyProcessing)
            /\ UNCHANGED << current_command, user_input, send, n_queries, deep_entries,
                            confirmation, query_vars >>
       ELSE /\ current_task' = TRUE
            /\ current_command' = <<u>>
            /\ user_input' = u
            /\ deep_entries' = 0
            /\ result' = <<>>
            /\ confirmation' = "none"
            /\ StartSend("initial", [context |-> context_history, input |-> u])
            /\ UNCHANGED env
    /\ UNCHANGED << n_calls, retry_vars, rendered, task_vars, parser_vars, requests_per_minute, delay_between_requests, request_count, max_context_length, appended, config, last_action, consecutive_failures, generation_config,
                    context_history, persp_idx, perspectives_results, original_config >>

\* What the oracle answers to a perspective or a synthesis prompt
AnalysisReplies ==
    { Json("analysis_null"),
      <<"fence_json", "ws", "{", "msg", "}", "fence">>,
      <<"p", "ws", "{", "msg", "}", "ws", "p">>,
      <<"p", "ws", "p">> }

\* What an attempt can fail with
Failures == ApiErrors \cup {LimiterErrorText}

\* chat.send_message raises err or, with an empty reply, line 120 does; when
\* wait_if_needed_async raised, line 117 is not reached and err is its IndexError
Raises(err) ==
    IF rl_outcome = "raised" THEN err = LimiterErrorText ELSE err \in ApiErrors

\* A retry loop that makes one attempt too many
SendRetryOneMore(err) ==
    /\ pc = "send"
    /\ Raises(err)
    /\ send.attempt < config.max_attempts
    /\ Len(grants) < MaxQueries
    /\ pc' = "backoff"
    /\ Suspends
    /\ retry_wake_at' = now + (IF IsRateLimit(err) THEN config.delay_between_retries
                               ELSE 1)
    /\ UNCHANGED << n_calls, last_error, rendered, task_vars, parser_vars, limiter_vars,
                    interrupted_in, sigterm_sent, fell_back, max_context_length,
                    appended, config, current_task, current_command, user_input, env,
                    last_action, consecutive_failures, generation_config,
                    context_history, send, persp_idx, perspectives_results,
                    original_config, confirmation, result, n_queries, deep_entries >>

\* _send_message_with_retry, lines 122-140: an attempt that is not the last one
\* fails, and the task is suspended in asyncio.sleep, line 132 or 139.  The local
\* last_error is read at line 142 only, where it is what the last attempt raised.
SendRetry(err) ==
    /\ pc = "send"
    /\ Raises(err)
    /\ send.attempt < config.max_attempts - 1
    /\ Len(grants) < MaxQueries
    /\ pc' = "backoff"
    /\ Suspends
    /\ retry_wake_at' = now + (IF IsRateLimit(err) THEN config.delay_between_retries
                               ELSE 1)
    /\ UNCHANGED << n_calls, last_error, rendered, task_vars, parser_vars, limiter_vars,
                    interrupted_in, sigterm_sent, fell_back, max_context_length,
                    appended, config, current_task, current_command, user_input, env,
                    last_action, consecutive_failures, generation_config,
                    context_history, send, persp_idx, perspectives_results,
                    original_config, confirmation, result, n_queries, deep_entries >>

\* The timer of the asyncio.sleep the task is suspended in (rate_limiter.py:27 and
\* 43, agent.py:132 and 139) runs at the time asked for: the sleep is over and the
\* task is to be resumed by the event loop
SleepTimerFires ==
    /\ pc \in {"limiter", "backoff"}
    /\ ~waiter_cancelled
    /\ ~sleep_done
    /\ sleep_done' = TRUE
    /\ now' = IF pc = "limiter" THEN wake_at ELSE retry_wake_at
    /\ UNCHANGED << must_cancel, waiter_cancelled, interrupted_in, sigterm_sent, fell_back,
                    n_calls, retry_vars, rendered, task_vars, parser_vars,
                    requests_per_minute, delay_between_requests, request_count,
                    request_times, last_request_time, rl_pc, wake_at, grants, rl_outcome,
                    max_context_length, appended, config, pc, current_task,
                    current_command, user_input, env, last_action, consecutive_failures,
                    generation_config, context_history, send, persp_idx,
                    perspectives_results, original_config, confirmation, result,
                    n_queries, deep_entries >>

\* The task is resumed after the asyncio.sleep of line 132 or 139 and the loop goes
\* on with the next attempt, line 115
NextAttempt ==
    /\ pc = "backoff"
    /\ sleep_done
    /\ ~must_cancel
    /\ send' = [send EXCEPT !.attempt = @ + 1]
    /\ retry_wake_at' = 0
    /\ Attempt(retry_wake_at)
    /\ UNCHANGED << n_calls, last_error, rendered, task_vars, parser_vars,
                    requests_per_minute, delay_between_requests, request_count,
                    interrupted_in, sigterm_sent, fell_back, max_context_length, appended, config,
                    current_task, current_command, user_input, env, last_action,
                    consecutive_failures, generation_config, context_history,
                    persp_idx, perspectives_results, original_config, confirmation,
                    result, n_queries, deep_entries >>

\* The task is resumed after the asyncio.sleep of line 27 or 43 and
\* wait_if_needed_async runs to its next sleep or to its end
LimiterWakes ==
    /\ pc = "limiter"
    /\ sleep_done
    /\ ~must_cancel
    /\ now' = wake_at
    /\ IF rl_pc = "sleep_delay" THEN LimiterDelayLoop(wake_at)
       ELSE LimiterCapLoop(wake_at, request_times)
    /\ UNCHANGED << n_calls, retry_vars, rendered, task_vars, parser_vars,
                    requests_per_minute, delay_between_requests, request_count,
                    interrupted_in, sigterm_sent, fell_back, max_context_length, appended, config,
                    current_task, current_command, user_input, env, last_action,
                    consecutive_failures, generation_config, context_history, send,
                    persp_idx, perspectives_results, original_config, confirmation,
                    result, n_queries, deep_entries >>

\* The last attempt failed: line 142 raises last_error
LastAttemptFails(purposes, err) ==
    /\ pc = "send"
    /\ Raises(err)
    /\ send.purpose \in purposes
    /\ send.attempt = config.max_attempts - 1

\* chat.send_message returns a response with text: lines 117-119
ModelReplies(text) ==
    /\ pc = "send"
    /\ rl_outcome = "returned"
    /\ text \in (IF send.purpose \in {"perspective", "synthesis"}
                 THEN AnalysisReplies ELSE Replies)
    /\ pc' = "received"
    /\ send' = [send EXCEPT !.reply = text]
    /\ UNCHANGED << n_calls, retry_vars, rendered, task_vars, parser_vars, limiter_vars, must_cancel, waiter_cancelled, sleep_done, interrupted_in, sigterm_sent, fell_back, max_context_length, appended, config, current_task, current_command, user_input, env,
                    last_action, consecutive_failures, generation_config,
                    context_history, persp_idx, perspectives_results, original_config,
                    confirmation, result, n_queries, deep_entries >>

\* _send_message_with_retry has returned the text to the caller
ReplyArrives(purposes) ==
    /\ pc = "received"
    /\ send.purpose \in purposes

\* process_command, lines 174-179 and 358, process_response, lines 341-356
ReplyInitial ==
    /\ ReplyArrives({"initial"})
    /\ LET r == ParseResponse(send.reply)
       IN  IF r.kind = "env" THEN Enter(r.env) ELSE Returns(r.text)
    /\ send' = NoSend
    /\ UNCHANGED << n_calls, retry_vars, rendered, task_vars, parser_vars, limiter_vars, must_cancel, waiter_cancelled, sleep_done, interrupted_in, sigterm_sent, fell_back, max_context_length, appended, config, current_command, user_input, last_action,
                    consecutive_failures, generation_config, context_history,
                    persp_idx, perspectives_results, original_config, confirmation,
                    n_queries, deep_entries >>

\* process_command, lines 364-367
RaiseInitial(err) ==
    /\ LastAttemptFails({"initial"}, err)
    /\ Returns(<<"Error: ", err>>)
    /\ send' = NoSend
    /\ UNCHANGED << n_calls, retry_vars, rendered, task_vars, parser_vars, limiter_vars, must_cancel, waiter_cancelled, sleep_done, interrupted_in, sigterm_sent, fell_back, max_context_length, appended, config, current_command, user_input, last_action,
                    consecutive_failures, generation_config, context_history,
                    persp_idx, perspectives_results, original_config, confirmation,
                    n_queries, deep_entries >>

\* execute_step, lines 183-257
Decide ==
    /\ pc = "decide"
    /\ fell_back' = ( /\ last_action # <<env>>
                      /\ ShouldActivate(env) = "true"
                      /\ env.reasoning_context.tag = "null" )
    /\ IF last_action = <<env>>
       THEN /\ StepReturns(AlreadyCompleted, FALSE)
            /\ UNCHANGED << last_action, consecutive_failures, persp_idx,
                            perspectives_results, original_config, deep_entries >>
       ELSE /\ last_action' = <<env>>
            /\ LET activate == ShouldActivate(env)
                   response_text == IF env.message # <<>> THEN env.message
                                    ELSE env.analysis
                   risk == IF env.next_step.risk = "absent" THEN "medium"
                           ELSE Lower(env.next_step.risk)
               IN  CASE activate = "raise" ->
                          \* line 336: the AttributeError is caught
                          /\ RecordResult(FALSE)
                          /\ StepReturns(NoneHasNoGet, FALSE)
                          /\ UNCHANGED << persp_idx, perspectives_results,
                                          original_config, deep_entries >>
                     [] activate = "true" /\ env.reasoning_context.tag = "null" ->
                          \* line 199 raises, line 231 calls execute_step again
                          /\ Enter(env)
                          /\ UNCHANGED << consecutive_failures, persp_idx,
                                          perspectives_results, original_config,
                                          deep_entries >>
                     [] activate = "true" /\ env.reasoning_context.tag # "null" ->
                          \* deep_analyze begins: lines 78-90
                          /\ pc' = "perspective"
                          /\ deep_entries' = deep_entries + 1
                          /\ persp_idx' = 1
                          /\ perspectives_results' = <<>>
                          /\ original_config' = <<>>
                          /\ UNCHANGED << env, result, current_task,
                                          consecutive_failures >>
                     [] activate = "false" ->
                          /\ IF env.next_step.tag # "obj" \/ env.next_step.command = <<>>
                             THEN StepReturns(response_text, env.continue)
                             ELSE /\ pc' = IF /\ env.next_step.requires_confirmation
                                              /\ NeedsConfirmation(risk)
                                           THEN "confirm" ELSE "exec"
                                  /\ UNCHANGED << env, result, current_task >>
                          /\ UNCHANGED << consecutive_failures, persp_idx,
                                          perspectives_results, original_config,
                                          deep_entries >>
    /\ confirmation' = "none"
    /\ UNCHANGED << n_calls, retry_vars, rendered, task_vars, parser_vars, limiter_vars, must_cancel, waiter_cancelled, sleep_done, interrupted_in, sigterm_sent, max_context_length, appended, config, current_command, user_input, generation_config,
                    context_history, send, n_queries >>

\* Confirm with the answer ignored: the command runs whatever the operator says
ConfirmIgnoresAnswer(answer) ==
    /\ pc = "confirm"
    /\ pc' = "exec"
    /\ confirmation' = IF answer THEN "yes" ELSE "no"
    /\ UNCHANGED << n_calls, retry_vars, rendered, task_vars, parser_vars, limiter_vars, must_cancel, waiter_cancelled, sleep_done, interrupted_in, sigterm_sent, fell_back, max_context_length, appended, config, current_task, current_command, user_input, env,
                    last_action, consecutive_failures, generation_config,
                    context_history, send, persp_idx, perspectives_results,
                    original_config, result, n_queries, deep_entries >>

\* terminal.request_confirmation answers: lines 252-257
\* Confirm with a refusal counted as a failure
ConfirmCountsRefusal(answer) ==
    /\ pc = "confirm"
    /\ IF answer
       THEN /\ pc' = "exec"
            /\ confirmation' = "yes"
            /\ UNCHANGED << env, result, current_task, consecutive_failures >>
       ELSE /\ StepReturns(CanceledByUser, FALSE)
            /\ confirmation' = "no"
            /\ RecordResult(FALSE)
    /\ UNCHANGED << n_calls, retry_vars, rendered, task_vars, parser_vars, limiter_vars, must_cancel, waiter_cancelled, sleep_done, interrupted_in, sigterm_sent, fell_back, max_context_length, appended, config, current_command, user_input, last_action,
                    generation_config, context_history, send,
                    persp_idx, perspectives_results, original_config, n_queries,
                    deep_entries >>

Confirm(answer) ==
    /\ pc = "confirm"
    /\ IF answer
       THEN /\ pc' = "exec"
            /\ confirmation' = "yes"
            /\ UNCHANGED << env, result, current_task >>
       ELSE /\ StepReturns(CanceledByUser, FALSE)
            /\ confirmation' = "no"
    /\ UNCHANGED << n_calls, retry_vars, rendered, task_vars, parser_vars, limiter_vars, must_cancel, waiter_cancelled, sleep_done, interrupted_in, sigterm_sent, fell_back, max_context_length, appended, config, current_command, user_input, last_action,
                    consecutive_failures, generation_config, context_history, send,
                    persp_idx, perspectives_results, original_config, n_queries,
                    deep_entries >>

\* f"Command returned code {returncode}: ..." of line 265
RcText(n) == CASE n = 0 -> "0" [] n = 1 -> "1" [] n = -15 -> "-15" [] OTHER -> "n"

ErrorMsg(r) ==
    <<"Command returned code ", RcText(r.returncode), ": ">>
    \o (IF r.stderr # <<>> THEN Strip(r.stderr) ELSE <<"No error message">>)

\* What a successful command contributes: lines 305 and 334
OutputOf(r) == IF Strip(r.stdout) # <<>> THEN r.stdout ELSE CompletedOk

\* CommandDone with the entry of a failed command logged as an output
CommandDoneLogsOutput(r) ==
    /\ pc = "exec"
    /\ r \in (IF sigterm_sent THEN KilledResults ELSE CmdResults)
    /\ sigterm_sent' = FALSE
    /\ IF r.returncode # 0
       THEN /\ context_history' =
                  AddToContext(context_history,
                      [type |-> "output",
                       content |-> IF r.stderr # <<>> THEN r.stderr ELSE ErrorMsg(r)])
            /\ appended' =
                  Append(appended,
                      [type |-> "output",
                       content |-> IF r.stderr # <<>> THEN r.stderr ELSE ErrorMsg(r)])
            /\ RecordResult(FALSE)
            /\ IF env.continue
               THEN /\ StartSendAt("continuation_error",
                           [command |-> env.next_step.command,
                            returncode |-> r.returncode,
                            text |-> IF r.stderr # <<>> THEN r.stderr
                                     ELSE <<"No error message">>],
                           now + r.seconds)
                    /\ UNCHANGED << env, result, current_task >>
               ELSE /\ StepReturns(ErrorMsg(r), env.continue)
                    /\ UNCHANGED << send, n_queries >>
                    /\ NoQuery(now + r.seconds)
       ELSE /\ context_history' =
                  AddToContext(context_history,
                      [type |-> "output", content |-> OutputOf(r)])
            /\ appended' =
                  Append(appended, [type |-> "output", content |-> OutputOf(r)])
            /\ IF env.continue
               THEN /\ StartSendAt("continuation_output",
                           [command |-> env.next_step.command,
                            returncode |-> r.returncode,
                            text |-> IF Strip(r.stdout) # <<>> THEN r.stdout
                                     ELSE <<"No output">>],
                           now + r.seconds)
                    /\ UNCHANGED << env, result, current_task, consecutive_failures >>
               ELSE /\ RecordResult(TRUE)
                    /\ StepReturns(OutputOf(r), env.continue)
                    /\ UNCHANGED << send, n_queries >>
                    /\ NoQuery(now + r.seconds)
    /\ UNCHANGED << n_calls, retry_vars, rendered, task_vars, parser_vars, requests_per_minute, delay_between_requests, request_count, interrupted_in, fell_back, max_context_length, config, current_command, user_input, last_action,
                    generation_config, persp_idx, perspectives_results,
                    original_config, confirmation, deep_entries >>

\* CommandDone with the continuation query skipped when the command printed nothing
CommandDoneSkipsQuery(r) ==
    /\ pc = "exec"
    /\ r \in (IF sigterm_sent THEN KilledResults ELSE CmdResults)
    /\ sigterm_sent' = FALSE
    /\ IF r.returncode # 0
       THEN /\ context_history' =
                  AddToContext(context_history,
                      [type |-> "error",
                       content |-> IF r.stderr # <<>> THEN r.stderr ELSE ErrorMsg(r)])
            /\ appended' =
                  Append(appended,
                      [type |-> "error",
                       content |-> IF r.stderr # <<>> THEN r.stderr ELSE ErrorMsg(r)])
            /\ RecordResult(FALSE)
            /\ IF env.continue
               THEN /\ StartSendAt("continuation_error",
                           [command |-> env.next_step.command,
                            returncode |-> r.returncode,
                            text |-> IF r.stderr # <<>> THEN r.stderr
                                     ELSE <<"No error message">>],
                           now + r.seconds)
                    /\ UNCHANGED << env, result, current_task >>
               ELSE /\ StepReturns(ErrorMsg(r), env.continue)
                    /\ UNCHANGED << send, n_queries >>
                    /\ NoQuery(now + r.seconds)
       ELSE /\ context_history' =
                  AddToContext(context_history,
                      [type |-> "output", content |-> OutputOf(r)])
            /\ appended' =
                  Append(appended, [type |-> "output", content |-> OutputOf(r)])
            /\ IF env.continue /\ Strip(r.stdout) # <<>>
               THEN /\ StartSendAt("continuation_output",
                           [command |-> env.next_step.command,
                            returncode |-> r.returncode,
                            text |-> IF Strip(r.stdout) # <<>> THEN r.stdout
                                     ELSE <<"No output">>],
                           now + r.seconds)
                    /\ UNCHANGED << env, result, current_task, consecutive_failures >>
               ELSE /\ RecordResult(TRUE)
                    /\ StepReturns(OutputOf(r), FALSE)
                    /\ UNCHANGED << send, n_queries >>
                    /\ NoQuery(now + r.seconds)
    /\ UNCHANGED << n_calls, retry_vars, rendered, task_vars, parser_vars, requests_per_minute, delay_between_requests, request_count, interrupted_in, fell_back, max_context_length, config, current_command, user_input, last_action,
                    generation_config, persp_idx, perspectives_results,
                    original_config, confirmation, deep_entries >>

\* linux.run_command returns: lines 260-339 up to the next await
CommandDone(r) ==
    /\ pc = "exec"
    /\ r \in (IF sigterm_sent THEN KilledResults ELSE CmdResults)
    /\ sigterm_sent' = FALSE
    /\ IF r.returncode # 0
       THEN /\ context_history' =
                  AddToContext(context_history,
                      [type |-> "error",
                       content |-> IF r.stderr # <<>> THEN r.stderr ELSE ErrorMsg(r)])
            /\ appended' =
                  Append(appended,
                      [type |-> "error",
                       content |-> IF r.stderr # <<>> THEN r.stderr ELSE ErrorMsg(r)])
            /\ RecordResult(FALSE)
            /\ IF env.continue
               THEN /\ StartSendAt("continuation_error",
                           [command |-> env.next_step.command,
                            returncode |-> r.returncode,
                            text |-> IF r.stderr # <<>> THEN r.stderr
                                     ELSE <<"No error message">>],
                           now + r.seconds)
                    /\ UNCHANGED << env, result, current_task >>
               ELSE /\ StepReturns(ErrorMsg(r), env.continue)
                    /\ UNCHANGED << send, n_queries >>
                    /\ NoQuery(now + r.seconds)
       ELSE /\ context_history' =
                  AddToContext(context_history,
                      [type |-> "output", content |-> OutputOf(r)])
            /\ appended' =
                  Append(appended, [type |-> "output", content |-> OutputOf(r)])
            /\ IF env.continue
               THEN /\ StartSendAt("continuation_output",
                           [command |-> env.next_step.command,
                            returncode |-> r.returncode,
                            text |-> IF Strip(r.stdout) # <<>> THEN r.stdout
                                     ELSE <<"No output">>],
                           now + r.seconds)
                    /\ UNCHANGED << env, result, current_task, consecutive_failures >>
               ELSE /\ RecordResult(TRUE)
                    /\ StepReturns(OutputOf(r), env.continue)
                    /\ UNCHANGED << send, n_queries >>
                    /\ NoQuery(now + r.seconds)
    /\ UNCHANGED << n_calls, retry_vars, rendered, task_vars, parser_vars, requests_per_minute, delay_between_requests, request_count, interrupted_in, fell_back, max_context_length, config, current_command, user_input, last_action,
                    generation_config, persp_idx, perspectives_results,
                    original_config, confirmation, deep_entries >>

\* A reply to "Analyze this error" that is taken as the final answer
ParseAfterErrorIsFinal(text) ==
    [kind |-> "final", env |-> NoEnvelope, text |-> Strip(FenceSub(text))]

\* The reply to "Analyze this error": lines 286-293, where every exception gives
\* str(e)
ParseAfterError(text) ==
    LET clean == FenceSub(text)
        x == ExtractJson(clean)
        j == JsonLoads(x.text)
    IN  IF ~x.ok THEN [kind |-> "final", env |-> NoEnvelope, text |-> NoValidJson]
        ELSE IF ~j.ok
             THEN [kind |-> "final", env |-> NoEnvelope, text |-> j.error]
        ELSE [kind |-> "env", env |-> j.env, text |-> <<>>]

\* The reply to a continuation query: lines 286-293 and 322-331
ReplyContinuation ==
    /\ ReplyArrives({"continuation_error", "continuation_output"})
    /\ LET r == IF send.purpose = "continuation_error"
                THEN ParseAfterError(send.reply)
                ELSE ParseResponse(send.reply)
       IN  IF r.kind = "env" THEN Enter(r.env) ELSE StepReturns(r.text, FALSE)
    /\ send' = NoSend
    /\ UNCHANGED << n_calls, retry_vars, rendered, task_vars, parser_vars, limiter_vars, must_cancel, waiter_cancelled, sleep_done, interrupted_in, sigterm_sent, fell_back, max_context_length, appended, config, current_command, user_input, last_action,
                    consecutive_failures, generation_config, context_history,
                    persp_idx, perspectives_results, original_config, confirmation,
                    n_queries, deep_entries >>

\* A continuation query raises: lines 336-339
RaiseContinuation(err) ==
    /\ LastAttemptFails({"continuation_error", "continuation_output"}, err)
    /\ RecordResult(FALSE)
    /\ StepReturns(<<err>>, FALSE)
    /\ send' = NoSend
    /\ UNCHANGED << n_calls, retry_vars, rendered, task_vars, parser_vars, limiter_vars, must_cancel, waiter_cancelled, sleep_done, interrupted_in, sigterm_sent, fell_back, max_context_length, appended, config, current_command, user_input, last_action,
                    generation_config, context_history, persp_idx,
                    perspectives_results, original_config, confirmation, n_queries,
                    deep_entries >>

-----------------------------------------------------------------------------
(* Deep Reasoning *)

\* AIAgent._temp_configure_model, lines 380-382
Override(cfg, current) ==
    [temperature |-> IF cfg.temperature = <<>> THEN current.temperature
                     ELSE cfg.temperature[1],
     top_p |-> IF cfg.top_p = <<>> THEN current.top_p ELSE cfg.top_p[1],
     top_k |-> IF cfg.top_k = <<>> THEN current.top_k ELSE cfg.top_k[1]]

\* A restore that leaves the override in place
RestoreNothing(current, saved) == current

\* the finally of lines 191-193, original_config being bound
Restore(current, saved) == saved[1]

\* the slice that starts at the first "{": lines 132-135 and 298-301
CutToBrace(t) ==
    IF t # <<>> /\ Head(t) = "{" THEN t
    ELSE LET i == Find(t, "{") IN IF i > 0 THEN SubSeq(t, i, Len(t)) ELSE t

\* deep_analyze, lines 122-143
PerspectiveParse(response) == JsonLoads(CutToBrace(FenceSub(Strip(response))))

\* The fallback of line 231 (and 206, 227): execute_step(parsed_response) again
Fallback == Enter(env)

\* deep_analyze is left: its locals are gone
DeepLocalsGone ==
    /\ persp_idx' = 0
    /\ perspectives_results' = <<>>
    /\ original_config' = <<>>

\* deep_analyze's loop takes the next perspective: lines 90-110 and 182-193
BeginPerspective ==
    /\ pc = "perspective"
    /\ persp_idx <= Len(config.perspectives)
    /\ LET cfg == config.perspectives[persp_idx]
       IN  IF cfg.mapping
           THEN /\ original_config' = <<generation_config>>
                /\ generation_config' = Override(cfg, generation_config)
                /\ StartSend("perspective", [perspective |-> persp_idx])
                /\ UNCHANGED << persp_idx, perspectives_results, env, result,
                                current_task >>
           ELSE \* config.get raises in _temp_configure_model before any assignment
                IF original_config = <<>>
                THEN \* the finally reads the unbound local: UnboundLocalError
                     \* leaves deep_analyze and reaches line 228
                     /\ Fallback
                     /\ DeepLocalsGone
                     /\ UNCHANGED << generation_config, send, n_queries, query_vars >>
                ELSE /\ generation_config' = Restore(generation_config, original_config)
                     /\ persp_idx' = persp_idx + 1
                     /\ UNCHANGED << pc, original_config, perspectives_results, env,
                                     result, current_task, send, n_queries,
                                     query_vars >>
    /\ UNCHANGED << n_calls, retry_vars, rendered, task_vars, parser_vars, requests_per_minute, delay_between_requests, request_count, interrupted_in, sigterm_sent, max_context_length, appended, config, current_command, user_input, last_action,
                    consecutive_failures, context_history, confirmation,
                    deep_entries >>
    /\ fell_back' = (pc' = "decide")

\* A perspective query returns text: lines 110-193
ReplyPerspective ==
    /\ ReplyArrives({"perspective"})
    /\ LET parsed == PerspectiveParse(send.reply)
       IN  perspectives_results' =
               IF parsed.ok
               THEN Append(perspectives_results,
                           [perspective |-> persp_idx, analysis |-> parsed.env.type])
               ELSE perspectives_results
    /\ generation_config' = Restore(generation_config, original_config)
    /\ persp_idx' = persp_idx + 1
    /\ pc' = "perspective"
    /\ send' = NoSend
    /\ UNCHANGED << n_calls, retry_vars, rendered, task_vars, parser_vars, limiter_vars, must_cancel, waiter_cancelled, sleep_done, interrupted_in, sigterm_sent, fell_back, max_context_length, appended, config, current_task, current_command, user_input, env,
                    last_action, consecutive_failures, context_history,
                    original_config, confirmation, result, n_queries, deep_entries >>

\* A perspective query raises: lines 182-193
RaisePerspective(err) ==
    /\ LastAttemptFails({"perspective"}, err)
    /\ generation_config' = Restore(generation_config, original_config)
    /\ persp_idx' = persp_idx + 1
    /\ pc' = "perspective"
    /\ send' = NoSend
    /\ UNCHANGED << n_calls, retry_vars, rendered, task_vars, parser_vars, limiter_vars, must_cancel, waiter_cancelled, sleep_done, interrupted_in, sigterm_sent, fell_back, max_context_length, appended, config, current_task, current_command, user_input, env,
                    last_action, consecutive_failures, context_history,
                    perspectives_results, original_config, confirmation, result,
                    n_queries, deep_entries >>

\* The next_step of the dicts deep_analyze builds itself: it has an "action" key
\* and no "command" key
PlaceholderStep ==
    [tag |-> "obj", command |-> <<>>, risk |-> "medium", requires_confirmation |-> TRUE]

\* deep_analyze, lines 223-231: what is returned when no perspective gave a result
DegradedEnvelope ==
    [type |-> "response",
     message |-> <<"Deep analysis encountered errors but will continue with standard processing">>,
     analysis |-> <<>>,
     next_step |-> PlaceholderStep]

\* _synthesize_perspectives, lines 318-328
SynthesisError(err) ==
    [type |-> "response", message |-> <<"Synthesis error: ", err>>, analysis |-> <<>>,
     next_step |-> PlaceholderStep]

\* The loop is over: lines 195-231, then agent.py lines 204-218.  The prompt of the
\* query that follows is built from the dict deep_analyze returned, kept whole here.
EndPerspectives ==
    /\ pc = "perspective"
    /\ persp_idx > Len(config.perspectives)
    /\ IF perspectives_results # <<>>
       THEN /\ StartSend("synthesis", [results |-> perspectives_results])
            /\ UNCHANGED << persp_idx, perspectives_results, original_config >>
       ELSE \* the degraded envelope has no analysis: the prompt embeds ''
            /\ StartSend("followup", DegradedEnvelope)
            /\ DeepLocalsGone
    /\ UNCHANGED << n_calls, retry_vars, rendered, task_vars, parser_vars, requests_per_minute, delay_between_requests, request_count, interrupted_in, sigterm_sent, fell_back, max_context_length, appended, config, current_task, current_command, user_input, env,
                    last_action, consecutive_failures, generation_config,
                    context_history, confirmation, result, deep_entries >>

\* _synthesize_perspectives, lines 293-316: the dict deep_analyze returns
SynthesisParse(response) ==
    LET clean == CutToBrace(Strip(FenceSub(response)))
        j == JsonLoads(clean)
    IN  IF j.ok
        THEN [type |-> j.env.type, message |-> j.env.message,
              analysis |-> j.env.analysis, next_step |-> j.env.next_step]
        ELSE [type |-> "analysis",
              message |-> <<"Synthesis completed with parsing errors">>,
              analysis |-> clean, next_step |-> PlaceholderStep]

\* The synthesis query returns text: lines 293-316, then agent.py lines 204-218
ReplySynthesis ==
    /\ ReplyArrives({"synthesis"})
    /\ LET deep_analysis == SynthesisParse(send.reply)
       IN  IF deep_analysis.type = "error"
           THEN Fallback /\ send' = NoSend /\ UNCHANGED << n_queries, query_vars >>
           ELSE /\ StartSend("followup", deep_analysis)
                /\ UNCHANGED << env, result, current_task >>
    /\ DeepLocalsGone
    /\ UNCHANGED << n_calls, retry_vars, rendered, task_vars, parser_vars, requests_per_minute, delay_between_requests, request_count, interrupted_in, sigterm_sent, max_context_length, appended, config, current_command, user_input, last_action,
                    consecutive_failures, generation_config, context_history,
                    confirmation, deep_entries >>
    /\ fell_back' = (pc' = "decide")

\* The synthesis query raises: lines 318-328, then agent.py lines 204-218
RaiseSynthesis(err) ==
    /\ LastAttemptFails({"synthesis"}, err)
    /\ StartSend("followup", SynthesisError(err))
    /\ DeepLocalsGone
    /\ UNCHANGED << n_calls, retry_vars, rendered, task_vars, parser_vars, requests_per_minute, delay_between_requests, request_count, interrupted_in, sigterm_sent, fell_back, max_context_length, appended, config, current_task, current_command, user_input, env,
                    last_action, consecutive_failures, generation_config,
                    context_history, confirmation, result, deep_entries >>

\* The reply to the analysis prompt: lines 219-227
ReplyFollowup ==
    /\ ReplyArrives({"followup"})
    /\ LET x == ExtractJson(FenceSub(send.reply))
           j == JsonLoads(x.text)
       IN  IF x.ok /\ j.ok
           THEN Enter(j.env) /\ fell_back' = FALSE
           ELSE Fallback /\ fell_back' = TRUE
    /\ send' = NoSend
    /\ UNCHANGED << n_calls, retry_vars, rendered, task_vars, parser_vars, limiter_vars, must_cancel, waiter_cancelled, sleep_done, interrupted_in, sigterm_sent, max_context_length, appended, config, current_command, user_input, last_action,
                    consecutive_failures, generation_config, context_history,
                    persp_idx, perspectives_results, original_config, confirmation,
                    n_queries, deep_entries >>

\* The analysis prompt's query raises: lines 228-231
RaiseFollowup(err) ==
    /\ LastAttemptFails({"followup"}, err)
    /\ fell_back' = TRUE
    /\ Fallback
    /\ send' = NoSend
    /\ UNCHANGED << n_calls, retry_vars, rendered, task_vars, parser_vars, limiter_vars, must_cancel, waiter_cancelled, sleep_done, interrupted_in, sigterm_sent, max_context_length, appended, config, current_command, user_input, last_action,
                    consecutive_failures, generation_config, context_history,
                    persp_idx, perspectives_results, original_config, confirmation,
                    n_queries, deep_entries >>

\* The loop runs the task whose sleep was cancelled, or which was marked after the
\* sleep's timer had run: the CancelledError is raised in the asyncio.sleep of the
\* rate limiter or of the retry loop, passes every "except Exception", runs the
\* finally of lines 191-193 and ends at lines 361-363 and 369.  The mark is dropped
\* as the error is raised
CancelDelivered ==
    /\ pc \in {"limiter", "backoff"}
    /\ waiter_cancelled \/ (sleep_done /\ must_cancel)
    /\ waiter_cancelled' = FALSE
    /\ sleep_done' = FALSE
    /\ rl_pc' = "idle"
    /\ rl_outcome' = "none"
    /\ wake_at' = 0
    /\ retry_wake_at' = 0
    /\ must_cancel' = FALSE
    /\ interrupted_in' = "none"
    /\ fell_back' = FALSE
    /\ generation_config' =
           IF send.purpose = "perspective"
           THEN Restore(generation_config, original_config)
           ELSE generation_config
    /\ Returns(CancelledResult)
    /\ send' = NoSend
    /\ DeepLocalsGone
    /\ UNCHANGED << sigterm_sent, n_calls, last_error, rendered, task_vars, parser_vars,
                    requests_per_minute, delay_between_requests, request_count, request_times,
                    last_request_time, now, grants, max_context_length, appended, config, current_command, user_input, last_action,
                    consecutive_failures, context_history, confirmation, n_queries,
                    deep_entries >>

\* handle_interrupt, lines 144-149, called while the task is suspended in a sleep
\* of the rate limiter or of the retry loop.  current_task.cancel() cancels the
\* sleep and handle_interrupt returns with the task still suspended; when the sleep
\* was cancelled already, or is over and the task not yet resumed, it marks the
\* task.  No command is running, so interrupt_current_process (lines 148-149)
\* signals nothing
Interrupt ==
    /\ current_task
    /\ pc \in {"limiter", "backoff"}
    /\ IF waiter_cancelled \/ sleep_done
       THEN /\ ~must_cancel
            /\ must_cancel' = TRUE
            /\ UNCHANGED waiter_cancelled
       ELSE /\ waiter_cancelled' = TRUE
            /\ UNCHANGED must_cancel
    /\ interrupted_in' = pc
    /\ UNCHANGED << sleep_done, sigterm_sent, fell_back, n_calls, retry_vars, rendered, task_vars,
                    parser_vars, limiter_vars, max_context_length, appended, config, pc,
                    current_task, current_command, user_input, env, last_action,
                    consecutive_failures, generation_config, context_history, send,
                    persp_idx, perspectives_results, original_config, confirmation,
                    result, n_queries, deep_entries >>

Next ==
    \/ \E u \in Inputs : Submit(u)
    \/ \E err \in Failures : SendRetry(err)
    \/ SleepTimerFires
    \/ NextAttempt
    \/ LimiterWakes
    \/ \E text \in Replies \cup AnalysisReplies : ModelReplies(text)
    \/ ReplyInitial
    \/ \E err \in Failures : RaiseInitial(err)
    \/ Decide
    \/ \E answer \in BOOLEAN : Confirm(answer)
    \/ \E r \in KilledResults : CommandDone(r)
    \/ ReplyContinuation
    \/ \E err \in Failures : RaiseContinuation(err)
    \/ BeginPerspective
    \/ ReplyPerspective
    \/ \E err \in Failures : RaisePerspective(err)
    \/ EndPerspectives
    \/ ReplySynthesis
    \/ \E err \in Failures : RaiseSynthesis(err)
    \/ ReplyFollowup
    \/ \E err \in Failures : RaiseFollowup(err)
    \/ Interrupt
    \/ CancelDelivered

Spec == Init /\ [][Next]_vars

-----------------------------------------------------------------------------
(* Interrupts at any moment of a turn.  chat.send_message, Confirm.ask        *)
(* (terminal.py:176) and linux.run_command are calls that block: the task is  *)
(* not suspended in them, and Task.cancel() can only mark it.                 *)

\* handle_interrupt, lines 144-149, called from a signal handler while the task is
\* inside a blocking call.  Lines 146-147 mark the task, and the CancelledError is
\* raised at the next await that suspends.  Lines 148-149 send SIGTERM only while
\* run_command has a process registered (linux_interaction.py:90): not before the
\* Popen of line 29 and not after the finally of line 58
InterruptDeferred ==
    /\ current_task
    /\ \/ /\ pc \in {"send", "confirm", "exec"}
          /\ ~must_cancel
          /\ UNCHANGED sigterm_sent
       \/ /\ pc = "exec"
          /\ ~sigterm_sent
          /\ sigterm_sent' = TRUE
    /\ must_cancel' = TRUE
    /\ interrupted_in' = pc
    /\ UNCHANGED << waiter_cancelled, sleep_done, fell_back >>
    /\ UNCHANGED << n_calls, retry_vars, rendered, task_vars, parser_vars, limiter_vars, max_context_length, appended, config, pc,
                    current_task, current_command, user_input, env, last_action,
                    consecutive_failures, generation_config, context_history, send,
                    persp_idx, perspectives_results, original_config, confirmation,
                    result, n_queries, deep_entries >>

CancelNext ==
    \/ Next
    \/ InterruptDeferred

CancelSpec == Init /\ [][CancelNext]_vars

-----------------------------------------------------------------------------
(* The Context Log on its own: ContextManager under any sequence of appends *)

\* The entries a caller may append (the timestamp is left out)
LogEntries ==
    { [type |-> "output", content |-> <<"out", "ws">>],
      [type |-> "error", content |-> <<"err", "ws">>] }

\* ContextManager.get_current_context: one line an entry, in the order of the list
Render(history) ==
    [i \in 1..Len(history) |-> <<"[ts] ", history[i].type, ": ">> \o history[i].content]

ContextInit ==
    /\ config = Cfg(TRUE, "medium", TRUE, <<Conservative, Creative>>)
    /\ AgentInit("InterruptibleTerminal")
    /\ \E max_length \in 0..MaxCapacity : LogInit(max_length)
    /\ LimiterInit(30, 0)
    /\ ParserIdle
    /\ TasksIdle

\* add_to_context(entry)
AppendEntry(entry) ==
    /\ Len(appended) < MaxAppends
    /\ context_history' = AddToContext(context_history, entry)
    /\ appended' = Append(appended, entry)
    /\ UNCHANGED << n_calls, retry_vars, rendered, task_vars, parser_vars, limiter_vars, must_cancel, waiter_cancelled, sleep_done, interrupted_in, sigterm_sent, fell_back, max_context_length, config, pc, current_task,
                    current_command, user_input, env, last_action,
                    consecutive_failures, generation_config, send, persp_idx,
                    perspectives_results, original_config, confirmation, result,
                    n_queries, deep_entries >>

\* A render that empties the list it has read
GetCurrentContextDrains ==
    /\ rendered' = [text |-> Render(context_history),
                    appends |-> Len(appended),
                    again |-> rendered # NoRender /\ rendered.appends = Len(appended)]
    /\ context_history' = <<>>
    /\ UNCHANGED << n_calls, retry_vars, task_vars, parser_vars, limiter_vars,
                    max_context_length, appended, config, pc, current_task,
                    current_command, user_input, env, last_action,
                    consecutive_failures, generation_config, send, persp_idx,
                    perspectives_results, original_config, confirmation, result,
                    n_queries, deep_entries, must_cancel, waiter_cancelled, sleep_done, interrupted_in, sigterm_sent, fell_back >>

\* get_current_context(): the text is kept with the number of appends made before
\* the call, and with whether the call before it saw the same number
GetCurrentContext ==
    /\ rendered' = [text |-> Render(context_history),
                    appends |-> Len(appended),
                    again |-> rendered # NoRender /\ rendered.appends = Len(appended)]
    /\ UNCHANGED << n_calls, retry_vars, task_vars, parser_vars, limiter_vars, agent_vars,
                    max_context_length, appended >>

ContextNext ==
    \/ \E entry \in LogEntries : AppendEntry(entry)
    \/ GetCurrentContext

ContextSpec == ContextInit /\ [][ContextNext]_vars

-----------------------------------------------------------------------------
(* The rate limiter on its own: RateLimiter.wait_if_needed_async, called again and *)
(* again by one task, while the clock advances                                     *)

RateInit ==
    /\ \E rpm \in Rpms : \E delay \in Delays :
          /\ config = WithApi(Cfg(TRUE, "medium", TRUE, <<Conservative, Creative>>),
                              rpm, delay, RetryDelay)
          /\ LimiterInit(rpm, delay)
    /\ AgentInit("InterruptibleTerminal")
    /\ LogInit(MaxContextLength)
    /\ ParserIdle
    /\ TasksIdle

\* wait_if_needed_async is called: lines 17-20
Call ==
    /\ rl_pc = "idle"
    /\ Len(grants) < MaxCalls
    /\ rl_pc' = IF last_request_time # <<>> THEN "delay" ELSE "prune"
    /\ rl_outcome' = "running"
    /\ UNCHANGED << n_calls, retry_vars, rendered, task_vars, parser_vars, agent_vars, max_context_length, appended, requests_per_minute,
                    delay_between_requests, request_count, request_times, last_request_time, now,
                    wake_at, grants >>

\* One turn of the loop of lines 21-29
CheckDelay ==
    /\ rl_pc = "delay"
    /\ LET time_since_last == now - last_request_time[1]
       IN  IF TooSoon(time_since_last, delay_between_requests)
           THEN /\ rl_pc' = "sleep_delay"
                /\ wake_at' = now + (delay_between_requests - time_since_last)
           ELSE /\ rl_pc' = "prune"
                /\ UNCHANGED wake_at
    /\ UNCHANGED << n_calls, retry_vars, rendered, task_vars, parser_vars, agent_vars, max_context_length, appended, requests_per_minute,
                    delay_between_requests, request_count, request_times, last_request_time, now,
                    grants, rl_outcome >>

\* asyncio.sleep returns, not before the time asked for: lines 27 and 43
SleepReturns ==
    /\ rl_pc \in {"sleep_delay", "sleep_cap"}
    /\ now >= wake_at
    /\ rl_pc' = IF rl_pc = "sleep_delay" THEN "delay" ELSE "cap"
    /\ UNCHANGED << n_calls, retry_vars, rendered, task_vars, parser_vars, agent_vars, max_context_length, appended, requests_per_minute,
                    delay_between_requests, request_count, request_times, last_request_time, now,
                    wake_at, grants, rl_outcome >>

\* lines 31-35
Prune ==
    /\ rl_pc = "prune"
    /\ request_times' = PruneOld(request_times, now)
    /\ rl_pc' = "cap"
    /\ UNCHANGED << n_calls, retry_vars, rendered, task_vars, parser_vars, agent_vars, max_context_length, appended, requests_per_minute,
                    delay_between_requests, request_count, last_request_time, now, wake_at, grants,
                    rl_outcome >>

\* One turn of the loop of lines 38-45; request_times[0] of an empty deque raises
\* IndexError
CheckCap ==
    /\ rl_pc = "cap"
    /\ IF CapReached(request_times, requests_per_minute)
       THEN IF request_times = <<>>
            THEN /\ rl_pc' = "idle"
                 /\ rl_outcome' = "raised"
                 /\ UNCHANGED wake_at
            ELSE LET wait_time == request_times[1] + Minute - now
                 IN  IF wait_time > 0
                     THEN /\ rl_pc' = "sleep_cap"
                          /\ wake_at' = now + wait_time
                          /\ UNCHANGED rl_outcome
                     ELSE /\ rl_pc' = "grant"
                          /\ UNCHANGED << wake_at, rl_outcome >>
       ELSE /\ rl_pc' = "grant"
            /\ UNCHANGED << wake_at, rl_outcome >>
    /\ UNCHANGED << n_calls, retry_vars, rendered, task_vars, parser_vars, agent_vars, max_context_length, appended, requests_per_minute,
                    delay_between_requests, request_count, request_times, last_request_time, now,
                    grants >>

\* lines 47-49, and the call returns
Grant ==
    /\ rl_pc = "grant"
    /\ request_times' = AppendMaxlen(request_times, now, requests_per_minute)
    /\ last_request_time' = <<now>>
    /\ grants' = Append(grants, now)
    /\ rl_pc' = "idle"
    /\ rl_outcome' = "returned"
    /\ UNCHANGED << n_calls, retry_vars, rendered, task_vars, parser_vars, agent_vars, max_context_length, appended, requests_per_minute,
                    delay_between_requests, request_count, now, wake_at >>

\* Time passes
ClockTick ==
    /\ now + Tick <= MaxTime
    /\ now' = now + Tick
    /\ UNCHANGED << n_calls, retry_vars, rendered, task_vars, parser_vars, agent_vars, max_context_length, appended, requests_per_minute,
                    delay_between_requests, request_count, request_times, last_request_time, rl_pc,
                    wake_at, grants, rl_outcome >>

\* wait_if_needed, the synchronous version, lines 84-86: the request is recorded at
\* the time read last, and the call returns
WaitIfNeededRecord(times) ==
    /\ request_times' = AppendMaxlen(times, now, requests_per_minute)
    /\ last_request_time' = <<now>>
    /\ grants' = Append(grants, now)
    /\ rl_pc' = "idle"
    /\ rl_outcome' = "returned"
    /\ UNCHANGED wake_at

\* wait_if_needed, lines 71-86, with current_time the clock read last: the prune,
\* the single test of the cap, where request_times[0] of an empty deque raises
\* IndexError, and the time.sleep of line 81 or the record
WaitIfNeededCap ==
    LET times == PruneOld(request_times, now)
    IN  IF CapReached(times, requests_per_minute)
        THEN IF times = <<>>
             THEN /\ request_times' = times
                  /\ rl_pc' = "idle"
                  /\ rl_outcome' = "raised"
                  /\ UNCHANGED << last_request_time, grants, wake_at >>
             ELSE LET wait_time == times[1] + Minute - now
                  IN  IF wait_time > 0
                      THEN /\ request_times' = times
                           /\ rl_pc' = "sync_sleep_cap"
                           /\ rl_outcome' = "running"
                           /\ wake_at' = now + wait_time
                           /\ UNCHANGED << last_request_time, grants >>
                      ELSE WaitIfNeededRecord(times)
        ELSE WaitIfNeededRecord(times)

\* wait_if_needed is called while no wait_if_needed_async call is running: lines
\* 53-68, up to the time.sleep of line 68 when the last request is too recent, and
\* on to line 71 when it is not
WaitIfNeeded ==
    /\ rl_pc = "idle"
    /\ Len(grants) < MaxCalls
    /\ request_count < MaxCalls
    /\ request_count' = request_count + 1
    /\ IF /\ last_request_time # <<>>
          /\ TooSoon(now - last_request_time[1], delay_between_requests)
       THEN /\ rl_pc' = "sync_sleep_delay"
            /\ rl_outcome' = "running"
            /\ wake_at' = now + (delay_between_requests - (now - last_request_time[1]))
            /\ UNCHANGED << request_times, last_request_time, grants >>
       ELSE WaitIfNeededCap
    /\ UNCHANGED << n_calls, retry_vars, rendered, task_vars, parser_vars, agent_vars,
                    max_context_length, appended, requests_per_minute,
                    delay_between_requests, now >>

\* The time.sleep of line 68 returns, not before the time asked for, the clock is
\* read again (line 69) and the call goes on at line 71
WaitIfNeededDelaySlept ==
    /\ rl_pc = "sync_sleep_delay"
    /\ now >= wake_at
    /\ WaitIfNeededCap
    /\ UNCHANGED << n_calls, retry_vars, rendered, task_vars, parser_vars, agent_vars,
                    max_context_length, appended, requests_per_minute,
                    delay_between_requests, request_count, now >>

\* The time.sleep of line 81 returns, not before the time asked for, the clock is
\* read again (line 82) and the request is recorded without another prune
WaitIfNeededCapSlept ==
    /\ rl_pc = "sync_sleep_cap"
    /\ now >= wake_at
    /\ WaitIfNeededRecord(request_times)
    /\ UNCHANGED << n_calls, retry_vars, rendered, task_vars, parser_vars, agent_vars,
                    max_context_length, appended, requests_per_minute,
                    delay_between_requests, request_count, now >>

RateNext ==
    \/ Call
    \/ WaitIfNeeded
    \/ WaitIfNeededDelaySlept
    \/ WaitIfNeededCapSlept
    \/ CheckDelay
    \/ SleepReturns
    \/ Prune
    \/ CheckCap
    \/ Grant
    \/ ClockTick

RateSpec == RateInit /\ [][RateNext]_vars

-----------------------------------------------------------------------------
(* The rate limiter called by several tasks of one event loop.  A task runs   *)
(* without interruption from one await that suspends to the next: the only    *)
(* awaits of wait_if_needed_async are the two asyncio.sleep calls, lines 27   *)
(* and 43, and both are reached only with a positive duration.                *)

ConcurrentInit ==
    /\ \E rpm \in Rpms : \E delay \in Delays :
          /\ config = WithApi(Cfg(TRUE, "medium", TRUE, <<Conservative, Creative>>),
                              rpm, delay, RetryDelay)
          /\ LimiterInit(rpm, delay)
    /\ AgentInit("InterruptibleTerminal")
    /\ LogInit(MaxContextLength)
    /\ ParserIdle
    /\ TasksIdle

\* lines 47-49: the caller records its request and returns
CoRecord(c, times) ==
    /\ request_times' = AppendMaxlen(times, now, requests_per_minute)
    /\ last_request_time' = <<now>>
    /\ grants' = Append(grants, now)
    /\ co_pc' = [co_pc EXCEPT ![c] = "idle"]
    /\ UNCHANGED co_wake_at

\* The loop of lines 38-45, entered or re-entered with the deque being times
CoCapLoop(c, times) ==
    IF CapReached(times, requests_per_minute)
    THEN IF times = <<>>
         THEN \* line 40 raises IndexError: the call ends, nothing is recorded
              /\ co_pc' = [co_pc EXCEPT ![c] = "idle"]
              /\ request_times' = times
              /\ UNCHANGED << last_request_time, grants, co_wake_at >>
         ELSE LET wait_time == times[1] + Minute - now
              IN  IF wait_time > 0
                  THEN /\ co_pc' = [co_pc EXCEPT ![c] = "sleep_cap"]
                       /\ co_wake_at' = [co_wake_at EXCEPT ![c] = now + wait_time]
                       /\ request_times' = times
                       /\ UNCHANGED << last_request_time, grants >>
                  ELSE CoRecord(c, times)
    ELSE CoRecord(c, times)

\* One turn of the loop of lines 21-29, and lines 31-49 when the loop is left
CoDelayLoop(c) ==
    IF /\ last_request_time # <<>>
       /\ TooSoon(now - last_request_time[1], delay_between_requests)
    THEN /\ co_pc' = [co_pc EXCEPT ![c] = "sleep_delay"]
         /\ co_wake_at' = [co_wake_at EXCEPT
                              ![c] = last_request_time[1] + delay_between_requests]
         /\ UNCHANGED << request_times, last_request_time, grants >>
    ELSE CoCapLoop(c, PruneOld(request_times, now))

\* A task calls wait_if_needed_async and runs to its first sleep or to the end
CoCall(c) ==
    /\ co_pc[c] = "idle"
    /\ Len(grants) + Cardinality({d \in Coroutines : co_pc[d] # "idle"}) < MaxCalls
    /\ CoDelayLoop(c)
    /\ UNCHANGED << n_calls, retry_vars, rendered, parser_vars, agent_vars, max_context_length, appended,
                    requests_per_minute, delay_between_requests, request_count, now, rl_pc, wake_at,
                    rl_outcome >>

\* The sleep of line 27 returns, not before the time asked for, and the task runs to
\* its next sleep or to the end
CoWakeFromDelay(c) ==
    /\ co_pc[c] = "sleep_delay"
    /\ now >= co_wake_at[c]
    /\ CoDelayLoop(c)
    /\ UNCHANGED << n_calls, retry_vars, rendered, parser_vars, agent_vars, max_context_length, appended,
                    requests_per_minute, delay_between_requests, request_count, now, rl_pc, wake_at,
                    rl_outcome >>

\* The sleep of line 43 returns, not before the time asked for, and the task runs to
\* its next sleep or to the end
CoWakeFromCap(c) ==
    /\ co_pc[c] = "sleep_cap"
    /\ now >= co_wake_at[c]
    /\ CoCapLoop(c, request_times)
    /\ UNCHANGED << n_calls, retry_vars, rendered, parser_vars, agent_vars, max_context_length, appended,
                    requests_per_minute, delay_between_requests, request_count, now, rl_pc, wake_at,
                    rl_outcome >>

ConcurrentNext ==
    \/ \E c \in Coroutines : CoCall(c)
    \/ \E c \in Coroutines : CoWakeFromDelay(c)
    \/ \E c \in Coroutines : CoWakeFromCap(c)
    \/ ClockTick

ConcurrentSpec == ConcurrentInit /\ [][ConcurrentNext]_vars

-----------------------------------------------------------------------------
(* The retry wrapper with the rate limiter: _send_message_with_retry, lines   *)
(* 106-142, called again and again, each attempt awaiting                     *)
(* wait_if_needed_async before it calls chat.send_message                     *)

\* The callers of _send_message_with_retry: agent.py lines 174, 279, 312 and 218,
\* deep_reasoning.py lines 110 and 293
QueryKinds ==
    { "initial", "continuation_error", "continuation_output", "followup",
      "perspective", "synthesis" }

WrapperInit ==
    /\ \E rpm \in Rpms : \E delay \in Delays :
          /\ config = WithApi(Cfg(TRUE, "medium", TRUE, <<Conservative, Creative>>),
                              rpm, delay, RetryDelay)
          /\ LimiterInit(rpm, delay)
    /\ AgentInit("InterruptibleTerminal")
    /\ LogInit(MaxContextLength)
    /\ ParserIdle
    /\ TasksIdle

\* _send_message_with_retry is called: lines 106-112
WrapperCalled(kind) ==
    /\ pc = "idle"
    /\ pc' = "send"
    /\ send' = [purpose |-> kind, attempt |-> 0, prompt |-> <<>>, reply |-> <<>>]
    /\ rl_outcome' = "none"
    /\ last_error' = "none"
    /\ UNCHANGED << rendered, task_vars, parser_vars, max_context_length, appended,
                    config, current_task, current_command, user_input, env,
                    last_action, consecutive_failures, generation_config,
                    context_history, persp_idx, perspectives_results, original_config,
                    confirmation, result, n_queries, deep_entries, must_cancel, waiter_cancelled, sleep_done, interrupted_in, sigterm_sent, fell_back,
                    requests_per_minute, delay_between_requests, request_count, request_times,
                    last_request_time, now, rl_pc, wake_at, grants, n_calls, retry_wake_at >>

\* line 115: the attempt awaits the rate limiter
AwaitLimiter ==
    /\ pc = "send"
    /\ rl_outcome = "none"
    /\ Call

\* What chat.send_message can do: give a text, raise, or give an empty reply
SendOutcomes == {"text"} \cup ApiErrors

\* The handler with the short delay after every failure
AttemptFailedShortDelay(err) ==
    /\ rl_outcome' = "none"
    /\ IF send.attempt < config.max_attempts - 1
       THEN /\ pc' = "backoff"
            /\ last_error' = err
            /\ retry_wake_at' = now + 1
            /\ UNCHANGED send
       ELSE /\ send' = NoSend
            /\ pc' = "idle"
            /\ last_error' = "none"
            /\ UNCHANGED retry_wake_at

\* The handler of an exception: lines 122-142, up to the sleep or to the raise
AttemptFailed(err) ==
    /\ rl_outcome' = "none"
    /\ IF send.attempt < config.max_attempts - 1
       THEN /\ pc' = "backoff"
            /\ last_error' = err
            /\ retry_wake_at' = now + (IF IsRateLimit(err)
                                       THEN config.delay_between_retries ELSE 1)
            /\ UNCHANGED send
       ELSE \* line 142 raises last_error: the call is over, its locals are gone
            /\ send' = NoSend
            /\ pc' = "idle"
            /\ last_error' = "none"
            /\ UNCHANGED retry_wake_at

\* asyncio.sleep of line 132 or 139 returns and the loop continues with the next
\* attempt
RetrySleepReturns ==
    /\ pc = "backoff"
    /\ now >= retry_wake_at
    /\ pc' = "send"
    /\ send' = [send EXCEPT !.attempt = @ + 1]
    /\ retry_wake_at' = 0
    /\ UNCHANGED << rendered, task_vars, parser_vars, max_context_length, appended,
                    config, current_task, current_command, user_input, env,
                    last_action, consecutive_failures, generation_config,
                    context_history, persp_idx, perspectives_results, original_config,
                    confirmation, result, n_queries, deep_entries, must_cancel, waiter_cancelled, sleep_done, interrupted_in, sigterm_sent, fell_back,
                    requests_per_minute, delay_between_requests, request_count, request_times,
                    last_request_time, now, rl_pc, wake_at, grants, n_calls, last_error,
                    rl_outcome >>

\* An attempt that calls the model although the limiter raised
LimiterRaisedCallsAnyway ==
    /\ pc = "send"
    /\ rl_pc = "idle"
    /\ rl_outcome = "raised"
    /\ n_calls' = n_calls + 1
    /\ AttemptFailed(LimiterErrorText)
    /\ UNCHANGED << rendered, task_vars, parser_vars, max_context_length, appended,
                    config, current_task, current_command, user_input, env,
                    last_action, consecutive_failures, generation_config,
                    context_history, persp_idx, perspectives_results, original_config,
                    confirmation, result, n_queries, deep_entries, must_cancel, waiter_cancelled, sleep_done, interrupted_in, sigterm_sent, fell_back,
                    requests_per_minute, delay_between_requests, request_count, request_times,
                    last_request_time, now, rl_pc, wake_at, grants >>

\* wait_if_needed_async raised: line 117 is not reached, the handler of line 122 runs
LimiterRaised ==
    /\ pc = "send"
    /\ rl_pc = "idle"
    /\ rl_outcome = "raised"
    /\ AttemptFailed(LimiterErrorText)
    /\ UNCHANGED << rendered, task_vars, parser_vars, max_context_length, appended,
                    config, current_task, current_command, user_input, env,
                    last_action, consecutive_failures, generation_config,
                    context_history, persp_idx, perspectives_results, original_config,
                    confirmation, result, n_queries, deep_entries, must_cancel, waiter_cancelled, sleep_done, interrupted_in, sigterm_sent, fell_back,
                    requests_per_minute, delay_between_requests, request_count, request_times,
                    last_request_time, now, rl_pc, wake_at, grants, n_calls >>

\* wait_if_needed_async returned and chat.send_message is called, line 117: it gives
\* a text, which the wrapper returns, or the attempt fails (an exception, or the
\* ValueError of line 120 for an empty reply)
SendMessage(outcome) ==
    /\ pc = "send"
    /\ rl_pc = "idle"
    /\ rl_outcome = "returned"
    /\ n_calls' = n_calls + 1
    /\ IF outcome = "text"
       THEN /\ pc' = "idle"
            /\ send' = NoSend
            /\ rl_outcome' = "none"
            /\ last_error' = "none"
            /\ UNCHANGED retry_wake_at
       ELSE AttemptFailed(outcome)
    /\ UNCHANGED << rendered, task_vars, parser_vars, max_context_length, appended,
                    config, current_task, current_command, user_input, env,
                    last_action, consecutive_failures, generation_config,
                    context_history, persp_idx, perspectives_results, original_config,
                    confirmation, result, n_queries, deep_entries, must_cancel, waiter_cancelled, sleep_done, interrupted_in, sigterm_sent, fell_back,
                    requests_per_minute, delay_between_requests, request_count, request_times,
                    last_request_time, now, rl_pc, wake_at, grants >>

WrapperNext ==
    \/ \E kind \in QueryKinds : WrapperCalled(kind)
    \/ AwaitLimiter
    \/ CheckDelay
    \/ SleepReturns
    \/ Prune
    \/ CheckCap
    \/ Grant
    \/ ClockTick
    \/ LimiterRaised
    \/ \E outcome \in SendOutcomes : SendMessage(outcome)
    \/ RetrySleepReturns

WrapperSpec == WrapperInit /\ [][WrapperNext]_vars

-----------------------------------------------------------------------------
(* The parser on its own: process_response's first three lines, given a JSON *)
(* envelope in a fenced block and the same JSON as it is                     *)

\* What the model may write before and after the block
ProseBefore == { <<>>, <<"p", "ws">>, <<"p", "ws", "{", "p", "}", "ws">> }
ProseAfter == { <<>>, <<"ws", "p">>, <<"ws", "p", "{", "p", "}">> }

\* The block opens with or without the language tag; whitespace may follow the
\* opener and precede the closer
FenceOpeners == {"fence_json", "fence"}
Paddings == { <<>>, <<"ws">> }

\* The JSON objects the block may hold: an envelope, or the object without keys
Objects == { Json(b) : b \in Bodies } \cup { <<"{", "}">> }

Fenced(before, opener, pad, object, after) ==
    before \o <<opener>> \o pad \o object \o pad \o <<"fence">> \o after

ParseInit ==
    /\ config = Cfg(TRUE, "medium", TRUE, <<Conservative, Creative>>)
    /\ AgentInit("InterruptibleTerminal")
    /\ LogInit(MaxContextLength)
    /\ LimiterInit(30, 0)
    /\ \E object \in Objects : \E opener \in FenceOpeners : \E pad \in Paddings :
       \E before \in ProseBefore : \E after \in ProseAfter :
          /\ unwrapped_text = object
          /\ fenced_text = Fenced(before, opener, pad, object, after)
    /\ parsed_fenced = <<>>
    /\ parsed_unwrapped = <<>>
    /\ TasksIdle

\* process_response on fenced_text and on unwrapped_text, lines
\* 343-345 and 352-356
ParseBoth ==
    /\ parsed_fenced = <<>>
    /\ parsed_fenced' = <<ParseResponse(fenced_text)>>
    /\ parsed_unwrapped' = <<ParseResponse(unwrapped_text)>>
    /\ UNCHANGED << n_calls, retry_vars, rendered, task_vars, agent_vars, limiter_vars,
                    max_context_length, appended, fenced_text, unwrapped_text >>

ParseNext == ParseBoth

ParseSpec == ParseInit /\ [][ParseNext]_vars

-----------------------------------------------------------------------------
(* Properties *)

\* The task is inside _send_message_with_retry: in the rate limiter's sleep, in
\* chat.send_message or in the sleep between two attempts
Querying(p) == p \in {"limiter", "send", "backoff"}

MessageOrAnalysis(e) == IF e.message # <<>> THEN e.message ELSE e.analysis

\* No trigger of deep reasoning applies to envelope e
NotEscalated(e) ==
    /\ ~config.debug_mode
    /\ ~e.requires_deep_reasoning
    /\ consecutive_failures < config.failure_threshold
    /\ ~(config.high_risk_commands /\ e.next_step.risk = "high")
    /\ e.reasoning_context.complexity # "high"
    /\ e.reasoning_context.impact_scope # "high"

\* A slice of t is one JSON object
HasJsonObject(t) ==
    \E i \in 1..Len(t) : \E j \in i..Len(t) : JsonLoads(SubSeq(t, i, j)).ok

\* risk is above threshold in the order none < low < medium < high, both words in
\* lower case
Exceeds(risk, threshold) ==
    <<risk, threshold>> \in
        { <<"low", "none">>, <<"medium", "none">>, <<"high", "none">>,
          <<"medium", "low">>, <<"high", "low">>, <<"high", "medium">> }

\* C1: within one call of process_command, deep_analyze is entered at most once.
C1_DeepReasoningAtMostOncePerTurn == deep_entries <= 1

\* C2: an envelope without next_step (absent or null) that no trigger escalates ends
\* the turn at once, whatever its continue flag: no command, no further query, and
\* the returned string is its message, or its analysis when the message is empty.
C2_NoNextStepReturnsMessage ==
    [][ ( /\ pc = "decide"
          /\ env.next_step.tag # "obj"
          /\ last_action # <<env>>
          /\ NotEscalated(env) )
        => ( /\ pc' = "idle"
             /\ result' = Strip(MessageOrAnalysis(env))
             /\ n_queries' = n_queries
             /\ context_history' = context_history
             /\ consecutive_failures' = consecutive_failures ) ]_vars

\* C3: a reply of the control loop's query that holds no JSON object ends the turn
\* with the reply's cleaned text as the result: no command, no further query.
C3_UndecodableReplyIsFinalAnswer ==
    [][ ( /\ pc = "received"
          /\ send.purpose \in {"initial", "continuation_error", "continuation_output"}
          /\ ~HasJsonObject(send.reply) )
        => ( /\ pc' = "idle"
             /\ result' = Strip(FenceSub(send.reply))
             /\ n_queries' = n_queries
             /\ context_history' = context_history ) ]_vars

\* The scenario of C4: a command of risk high that asks for confirmation, with the
\* threshold at medium
HighRiskScenario ==
    /\ env.next_step.tag = "obj"
    /\ env.next_step.command # <<>>
    /\ env.next_step.risk = "high"
    /\ env.next_step.requires_confirmation
    /\ config.risk_threshold = "medium"

\* C4 as claimed: in the scenario the command runs only after the operator approved.
C4_GateBeforeDispatch ==
    (pc = "exec" /\ HighRiskScenario) => confirmation = "yes"

\* C4, amended: with agent.require_confirmation on, in the scenario the command runs
\* only after the operator approved, and when the operator declines the turn ends
\* with "Operation canceled by user." and nothing is dispatched or queried.
C4_GateBeforeDispatchWhenEnabled ==
    /\ [](( /\ pc = "exec"
            /\ HighRiskScenario
            /\ config.require_confirmation ) => confirmation = "yes")
    /\ [][ (pc = "confirm" /\ HighRiskScenario /\ confirmation' = "no")
           => ( /\ pc' = "idle"
                /\ result' = CanceledByUser
                /\ context_history' = context_history
                /\ n_queries' = n_queries ) ]_vars

\* C4 witness: the operator declined the high-risk command and the turn ended.
C4_Witness ==
    /\ pc = "idle"
    /\ confirmation = "no"
    /\ result = CanceledByUser
    /\ last_action = <<EnvOf("cmd_high")>>
    /\ config.risk_threshold = "medium"
    /\ context_history = <<>>

\* C5 as claimed: a command reaches the gate exactly when it asks for confirmation
\* and its risk is above the threshold; otherwise it is dispatched without asking.
C5_GateExactlyWhenRiskExceeds ==
    [][ (pc = "decide" /\ pc' \in {"confirm", "exec"})
        => ( pc' = "confirm"
             <=> ( /\ env.next_step.command # <<>>
                   /\ env.next_step.requires_confirmation
                   /\ Exceeds(Lower(env.next_step.risk),
                              Lower(config.risk_threshold)) ) ) ]_vars

\* C5, amended: the same with agent.require_confirmation on as a fourth condition.
C5_GateExactlyWhenEnabledAndRiskExceeds ==
    [][ (pc = "decide" /\ pc' \in {"confirm", "exec"})
        => ( pc' = "confirm"
             <=> ( /\ env.next_step.command # <<>>
                   /\ env.next_step.requires_confirmation
                   /\ config.require_confirmation
                   /\ Exceeds(Lower(env.next_step.risk),
                              Lower(config.risk_threshold)) ) ) ]_vars

\* C5 witness: the gate is open for a command of risk medium above the threshold none.
C5_Witness ==
    /\ pc = "confirm"
    /\ env = EnvOf("cmd_medium")
    /\ config.risk_threshold = "none"
    /\ config.require_confirmation

\* C6: when a dispatched command has returned, the failure counter is 0 if it exited
\* with 0 and one more than before otherwise, whatever the continue flag.
C6_CounterFollowsExitCode ==
    [][ (pc = "exec" /\ context_history' # context_history)
        => LET last == context_history'[Len(context_history')]
           IN  /\ last.type = "output" => consecutive_failures' = 0
               /\ last.type = "error"
                    => consecutive_failures' = consecutive_failures + 1 ]_vars

\* C7: with the failure counter at the threshold, the next decision enters deep
\* reasoning whatever the envelope asks for.
C7_FailuresActivateDeepReasoning ==
    [][ (pc = "decide" /\ consecutive_failures >= config.failure_threshold)
        => (pc' = "perspective" /\ deep_entries' = deep_entries + 1) ]_vars

InPerspectiveQuery == pc \in {"limiter", "send", "backoff", "received"} /\ send.purpose = "perspective"

\* C8: outside a perspective query the sampling parameters are the configured ones:
\* every way a perspective ends puts back what its override replaced.
C8_OverrideIsScoped == ~InPerspectiveQuery => generation_config = DefaultGeneration

\* C8 witness: a perspective changed the parameters, its query failed, and the loop
\* is at the next perspective with the parameters put back.
C8_Witness ==
    /\ pc = "perspective"
    /\ persp_idx = 2
    /\ original_config = <<DefaultGeneration>>
    /\ perspectives_results = <<>>
    /\ Override(config.perspectives[1], DefaultGeneration) # DefaultGeneration

\* C9: deep_analyze is left only with an envelope, which the caller sends on in the
\* analysis prompt: from the perspective loop the next step is a perspective query,
\* the next perspective, the synthesis query or the analysis prompt's query, never
\* the exception handler of agent.py:228.
C9_DeepAnalyzeAlwaysReturns ==
    [][ pc = "perspective" => pc' \in {"perspective", "limiter", "send"} ]_vars

\* C10: when a command dispatched from an envelope with continue = true has returned,
\* one query starts, built from the command, its exit code and its output or error
\* text, and no other query starts before its reply is handled.
C10_OneQueryAfterDispatch ==
    [][ /\ ( /\ pc = "exec"
             /\ env.continue
             /\ context_history' # context_history )
           => LET last == context_history'[Len(context_history')]
              IN  /\ Querying(pc')
                  /\ n_queries' = n_queries + 1
                  /\ send'.attempt = 0
                  /\ send'.purpose = IF last.type = "error" THEN "continuation_error"
                                     ELSE "continuation_output"
                  /\ send'.prompt.command = env.next_step.command
                  /\ (send'.prompt.returncode = 0) <=> (last.type = "output")
                  /\ \/ send'.prompt.text = last.content
                     \/ /\ last.content = CompletedOk
                        /\ send'.prompt.text = <<"No output">>
                     \/ /\ last.type = "error"
                        /\ send'.prompt.text = <<"No error message">>
        /\ ( /\ pc \in {"limiter", "send", "backoff", "received"}
             /\ send.purpose \in {"continuation_error", "continuation_output"} )
           => n_queries' = n_queries ]_vars

\* C10 witness: the query after a successful command that printed text is in flight.
C10_Witness ==
    /\ pc = "send"
    /\ send.purpose = "continuation_output"
    /\ send.prompt.text = <<"out", "ws">>
    /\ n_queries = 2
    /\ Len(context_history) = 1

\* C11: a command that exits non-zero under continue = true does not end the turn:
\* the next step is a query that carries the command, its return code and its error
\* text, and a reply that is a JSON envelope is decided next.
C11_FailedCommandIsReported ==
    [][ /\ ( /\ pc = "exec"
             /\ env.continue
             /\ Len(appended') > Len(appended)
             /\ appended'[Len(appended')].type = "error" )
           => ( /\ Querying(pc')
                /\ current_task'
                /\ send'.purpose = "continuation_error"
                /\ send'.prompt.command = env.next_step.command
                /\ send'.prompt.returncode # 0
                /\ send'.prompt.text \in { appended'[Len(appended')].content,
                                           <<"No error message">> } )
        /\ \A b \in Bodies :
             ( /\ pc = "received"
               /\ send.purpose = "continuation_error"
               /\ send.reply = Json(b) )
             => (pc' = "decide" /\ env' = EnvOf(b) /\ current_task') ]_vars

\* C11 witness: the envelope that answers a failed command's report is being decided.
C11_Witness ==
    /\ pc = "decide"
    /\ env = EnvOf("cmd_medium")
    /\ Len(context_history) = 1
    /\ context_history[1].type = "error"
    /\ consecutive_failures = 1
    /\ n_queries = 2

\* C12: one call of the retry wrapper makes at most max_attempts attempts; a reply
\* ends it at once, with that reply; only a failure of the last attempt ends it
\* without a reply, and then the caller's handler runs (or the task is cancelled).
C12_RetryWrapper ==
    /\ [](pc \in {"limiter", "send", "backoff", "received"}
             => send.attempt + 1 <= config.max_attempts)
    /\ [][ pc = "send"
           => \/ /\ pc' = "received"
                 /\ send'.reply # <<>>
                 /\ send' = [send EXCEPT !.reply = send'.reply]
              \/ /\ pc' = "backoff"
                 /\ send.attempt + 1 < config.max_attempts
                 /\ send' = send
              \/ /\ send.attempt + 1 = config.max_attempts
                 /\ pc' \notin {"received", "backoff"}
                 /\ send' # send
                 /\ send'.reply = <<>>
                 /\ send'.attempt = 0 ]_vars
    /\ [][ pc = "backoff"
           => \/ /\ pc' \in {"limiter", "send"}
                 /\ send' = [send EXCEPT !.attempt = send.attempt + 1]
              \/ /\ pc' = "backoff"
                 /\ send' = send
                 /\ waiter_cancelled' \/ sleep_done'
              \/ /\ pc' = "idle"
                 /\ waiter_cancelled \/ must_cancel
                 /\ result' = CancelledResult ]_vars

\* C12 witness: a reply arrived on the last attempt, after a failed one.
C12_Witness ==
    /\ pc = "received"
    /\ send.attempt + 1 = config.max_attempts
    /\ send.attempt > 0
    /\ send.reply # <<>>

\* Text t carries the message of one of the errors the model calls raise
CarriesError(t) == \E e \in ApiErrors : \E i \in 1..Len(t) : t[i] = e

\* C13: when the initial query, a continuation query or the query after deep
\* reasoning fails on its last attempt, the turn ends and its result carries the
\* error.
C13_ExhaustedRetriesEndTheTurn ==
    [][ ( /\ pc = "send"
          /\ send.purpose \in {"initial", "continuation_error",
                               "continuation_output", "followup"}
          /\ send.attempt + 1 = config.max_attempts
          /\ pc' # "received"
          /\ result' # CancelledResult )
        => (pc' = "idle" /\ CarriesError(result')) ]_vars

\* The last k entries of sequence q
LastOf(q, k) == SubSeq(q, Len(q) - k + 1, Len(q))

\* C17: after n appends the log holds the min(n, max_length) entries appended last,
\* in the order of insertion; render lists them oldest first; the log is never longer
\* than max_length.
C17_LogKeepsTheMostRecent ==
    LET n == Len(appended)
        k == IF n < max_context_length THEN n ELSE max_context_length
    IN  /\ Len(context_history) <= max_context_length
        /\ context_history = LastOf(appended, k)
        /\ Len(Render(context_history)) = k
        /\ \A i \in 1..k :
             Render(context_history)[i]
                 = <<"[ts] ", appended[n - k + i].type, ": ">> \o appended[n - k + i].content

\* C17 witness: two entries more than the capacity were appended, and the log holds
\* two different entries.
C17_Witness ==
    /\ max_context_length = 2
    /\ Len(appended) = 4
    /\ Len(context_history) = 2
    /\ context_history[1] # context_history[2]
    /\ appended[1] # context_history[1]

\* The grants of the last minute: those less than 60 seconds old
RecentGrants == { i \in 1..Len(grants) : now - grants[i] < Minute }

\* C14: at every moment at most requests_per_minute grants are less than 60 seconds
\* old, and the grant that follows requests_per_minute grants comes no earlier than
\* 60 seconds after the first of them.
C14_WindowCap ==
    /\ Cardinality(RecentGrants) <= requests_per_minute
    /\ \A i \in 1..Len(grants) :
         i + requests_per_minute <= Len(grants)
            => grants[i + requests_per_minute] >= grants[i] + Minute

\* C14 witness: with a cap of two, two grants less than a minute apart were followed
\* by a third.
C14_Witness ==
    /\ requests_per_minute = 2
    /\ delay_between_requests = 0
    /\ Len(grants) = 3
    /\ grants[2] - grants[1] < Minute
    /\ rl_outcome = "returned"

\* C15: two consecutive grants are at least delay_between_requests seconds apart, and
\* a call returns no earlier than last_request_time + delay_between_requests.
C15_MinimumDelay ==
    /\ [](\A i \in 2..Len(grants) :
             grants[i] - grants[i - 1] >= delay_between_requests)
    /\ [][ (Len(grants') > Len(grants) /\ last_request_time # <<>>)
           => grants'[Len(grants')] >= last_request_time[1] + delay_between_requests
       ]_vars

\* C15 witness: under a cap that does not bind, a second grant followed the first
\* after the delay of 80 seconds.
C15_Witness ==
    /\ requests_per_minute = 2
    /\ delay_between_requests = 80
    /\ Len(grants) = 2
    /\ grants[2] - grants[1] >= 80
    /\ grants[2] - grants[1] < 80 + Tick

\* C16: for every requests_per_minute and delay, a call that ends has returned, not
\* failed, and has recorded exactly one timestamp, the time of its return.
C16_EveryCallIsGranted ==
    [][ (rl_pc # "idle" /\ rl_pc' = "idle")
        => ( /\ rl_outcome' = "returned"
             /\ Len(grants') = Len(grants) + 1
             /\ request_times' # <<>>
             /\ request_times'[Len(request_times')] = now
             /\ last_request_time' = <<now>> ) ]_vars

\* The four conditions of the activation policy, for envelope e
PolicyHolds(e) ==
    \/ e.requires_deep_reasoning
    \/ consecutive_failures >= config.failure_threshold
    \/ (config.high_risk_commands /\ e.next_step.risk = "high")
    \/ e.reasoning_context.complexity = "high"
    \/ e.reasoning_context.impact_scope = "high"

\* C18: for the envelope being decided, also one whose next_step or reasoning_context
\* is null or absent, should_activate returns true when one of the four conditions
\* holds and false otherwise; it never fails.
C18_ActivationPolicy ==
    pc = "decide"
        => ShouldActivate(env) = (IF PolicyHolds(env) THEN "true" ELSE "false")

\* C19: when the perspective loop ends without a result, no synthesis query is made
\* and deep_analyze returns an envelope of type response whose next_step is null,
\* from which the caller goes on to its next query.
C19_DegradedEnvelope ==
    [][ ( /\ pc = "perspective"
          /\ persp_idx > Len(config.perspectives)
          /\ perspectives_results = <<>> )
        => ( /\ Querying(pc')
             /\ send'.purpose = "followup"
             /\ send'.prompt.type = "response"
             /\ send'.prompt.next_step.tag = "null" ) ]_vars

\* C20: a perspective that fails does not end deep_analyze: from every position of
\* the loop the next step is that perspective's query or the next position, and once
\* the loop is over the synthesis query is given the results gathered.
C20_FailingPerspectiveIsSkipped ==
    [][ /\ ( /\ pc = "perspective"
             /\ persp_idx <= Len(config.perspectives) )
           => \/ /\ Querying(pc')
                 /\ send'.purpose = "perspective"
                 /\ send'.prompt.perspective = persp_idx
                 /\ persp_idx' = persp_idx
              \/ /\ pc' = "perspective"
                 /\ persp_idx' = persp_idx + 1
                 /\ perspectives_results' = perspectives_results
        /\ ( /\ pc \in {"limiter", "send", "backoff", "received"}
             /\ send.purpose = "perspective"
             /\ pc' \notin {"limiter", "send", "backoff", "received", "idle"} )
           => (pc' = "perspective" /\ persp_idx' = persp_idx + 1)
        /\ ( /\ pc = "perspective"
             /\ persp_idx > Len(config.perspectives)
             /\ perspectives_results # <<>> )
           => ( /\ Querying(pc')
                /\ send'.purpose = "synthesis"
                /\ send'.prompt.results = perspectives_results ) ]_vars

\* str(perspectives_results) as text: one token for each result gathered
ResultsText(results) == [i \in 1..Len(results) |-> results[i].analysis]

\* C21: when the perspective loop ends with a result, one synthesis query starts, and
\* the query that follows its reply is the caller's, not another synthesis; when the
\* synthesis reply cannot be decoded, deep_analyze returns an envelope of type
\* analysis with the "Synthesis completed with parsing errors" message whose analysis
\* field is the perspective results.
C21_OneSynthesisWithRawResults ==
    [][ /\ ( /\ pc = "perspective"
             /\ persp_idx > Len(config.perspectives)
             /\ perspectives_results # <<>> )
           => ( /\ Querying(pc')
                /\ send'.purpose = "synthesis"
                /\ n_queries' = n_queries + 1 )
        /\ ( /\ pc = "received"
             /\ send.purpose = "synthesis"
             /\ Querying(pc') )
           => (send'.purpose = "followup" /\ n_queries' = n_queries + 1)
        /\ ( /\ pc = "received"
             /\ send.purpose = "synthesis"
             /\ ~HasJsonObject(send.reply)
             /\ Querying(pc') )
           => ( /\ send'.prompt.type = "analysis"
                /\ send'.prompt.message = <<"Synthesis completed with parsing errors">>
                /\ send'.prompt.analysis = ResultsText(perspectives_results) ) ]_vars

\* C22: once an interrupt has arrived while the turn was in the rate limiter's wait,
\* in a model call or at the confirmation prompt, the turn dispatches no command, and
\* when it ends it returns the cancelled result, with current_task None and the
\* default sampling configuration.
C22_InterruptUnwinds ==
    [][ ( /\ current_task
          /\ interrupted_in \in {"limiter", "send", "confirm"} )
        => ( /\ pc' = "exec" => pc = "exec"
             /\ pc' = "idle"
                => ( /\ result' = CancelledResult
                     /\ ~current_task'
                     /\ generation_config' = DefaultGeneration ) ) ]_vars

ContinuationQueries == {"continuation_error", "continuation_output"}

\* C23: process_command always ends by returning a string, with current_task None
\* from then on: an error of the initial query that no retry is left for becomes
\* "Error: " and its message, an error of a continuation query or of the activation
\* check becomes its message, and no step ends a turn in any other way.
C23_NoExceptionEscapes ==
    /\ [](pc # "no_agent" => (pc = "idle" <=> ~current_task))
    /\ [][ /\ (pc # "idle" /\ pc' = "idle")
              => (~current_task' /\ result' \in Seq(STRING))
           /\ (Querying(pc) /\ send.purpose = "initial" /\ pc' = "idle")
              => \/ result' = CancelledResult
                 \/ /\ send.attempt + 1 = config.max_attempts
                    /\ \E e \in ApiErrors : result' = <<"Error: ", e>>
           /\ (Querying(pc) /\ send.purpose \in ContinuationQueries /\ pc' = "idle")
              => \/ result' = CancelledResult
                 \/ /\ send.attempt + 1 = config.max_attempts
                    /\ \E e \in ApiErrors : result' = <<e>>
           /\ ( /\ pc = "decide"
                /\ last_action # <<env>>
                /\ ShouldActivate(env) = "raise" )
              => (pc' = "idle" /\ result' = NoneHasNoGet) ]_vars

\* C23 witness: the initial query failed on its last attempt and the turn ended with
\* the error as its result.
C23_Witness ==
    /\ pc = "idle"
    /\ ~current_task
    /\ result = <<"Error: ", "connection reset">>
    /\ current_command # <<>>
    /\ context_history = <<>>

\* C24: a reply that holds a JSON envelope in a fenced block, with or without the
\* language tag and with or without prose around the block, parses to the envelope
\* that the same JSON parses to when given as it is.
C24_FencedParsesAsUnwrapped ==
    parsed_fenced # <<>>
        => ( /\ parsed_unwrapped[1].kind = "env"
             /\ parsed_fenced[1] = parsed_unwrapped[1] )

\* C25: the window never holds more than requests_per_minute timestamps, and every
\* call prunes before it records: the prune leaves no timestamp older than 60
\* seconds and removes no other, and a timestamp is recorded only by a call that has
\* pruned and then passed the check of the cap.
C25_WindowIsBoundedAndPruned ==
    /\ [](Len(request_times) <= requests_per_minute)
    /\ [][ /\ (rl_pc = "prune" /\ rl_pc' # "prune")
              => /\ rl_pc' = "cap"
                 /\ \A i \in 1..Len(request_times') : now - request_times'[i] <= Minute
                 /\ \E k \in 0..Len(request_times) :
                       /\ request_times' = SubSeq(request_times, k + 1, Len(request_times))
                       /\ \A j \in 1..k : now - request_times[j] > Minute
           /\ (rl_pc' = "cap" /\ rl_pc # "cap") => rl_pc \in {"prune", "sleep_cap"}
           /\ (rl_pc' = "sleep_cap" /\ rl_pc # "sleep_cap") => rl_pc = "cap"
           /\ (rl_pc' = "grant" /\ rl_pc # "grant") => rl_pc = "cap"
           /\ request_times' # request_times
              => \/ rl_pc \in {"prune", "grant", "sync_sleep_delay", "sync_sleep_cap"}
                 \/ request_count' # request_count
           /\ Len(grants') > Len(grants)
              => /\ \/ rl_pc \in {"grant", "sync_sleep_delay", "sync_sleep_cap"}
                    \/ request_count' # request_count
                 /\ request_times'[Len(request_times')] = now'
           /\ (request_count' # request_count \/ (rl_pc = "sync_sleep_delay" /\ rl_pc' # rl_pc))
              => \E k \in 0..Len(request_times) :
                    LET kept == SubSeq(request_times, k + 1, Len(request_times))
                    IN  /\ \A j \in 1..k : now' - request_times[j] > Minute
                        /\ rl_pc' # "sync_sleep_delay"
                              => \A i \in 1..Len(kept) : now' - kept[i] <= Minute
                        /\ request_times' \in
                              { kept, AppendMaxlen(kept, now', requests_per_minute) }
           /\ (rl_pc' = "sync_sleep_cap" /\ rl_pc # "sync_sleep_cap")
              => (request_count' # request_count \/ rl_pc = "sync_sleep_delay")
           /\ (rl_pc = "sync_sleep_cap" /\ rl_pc' # "sync_sleep_cap")
              => request_times' = AppendMaxlen(request_times, now', requests_per_minute)
       ]_vars

\* C25 witness: two timestamps were recorded under a cap of two, and the prune of a
\* later call has removed both.
C25_Witness ==
    /\ requests_per_minute = 2
    /\ Len(grants) = 2
    /\ rl_pc = "cap"
    /\ request_times = <<>>

\* C26: with several tasks calling the rate limiter at the same time, two consecutive
\* grants are still at least delay_between_requests seconds apart, and at most
\* requests_per_minute grants are less than 60 seconds old.
C26_ConcurrentCallersKeepBothLimits ==
    /\ \A i \in 2..Len(grants) : grants[i] - grants[i - 1] >= delay_between_requests
    /\ Cardinality(RecentGrants) <= requests_per_minute

\* C27: the model calls made never outnumber the grants recorded, and each call, of
\* whatever kind and on whatever attempt, is made right after a grant of its own:
\* the limiter has returned to this attempt and one grant is not yet used.
C27_EveryModelCallIsGranted ==
    /\ [](n_calls <= Len(grants))
    /\ [][ n_calls' # n_calls
           => ( /\ n_calls' = n_calls + 1
                /\ pc = "send"
                /\ send.purpose \in QueryKinds
                /\ rl_outcome = "returned"
                /\ Len(grants) = n_calls + 1
                /\ grants' = grants ) ]_vars

\* C27 witness: the first attempt of a synthesis query was the third model call, made
\* on the third grant; it failed and its retry has not yet asked the limiter.
C27_Witness ==
    /\ n_calls = 3
    /\ Len(grants) = 3
    /\ pc = "send"
    /\ send.purpose = "synthesis"
    /\ send.attempt = 1
    /\ rl_outcome = "none"

\* C28: the log changes only when a dispatched command has ended, and then by exactly
\* one entry, of type error when the exit code is not zero and of type output
\* otherwise, which is in the log when the continuation query that follows is begun.
C28_OneEntryPerCommand ==
    [][ /\ (appended' # appended \/ context_history' # context_history)
           => (pc = "exec" /\ pc' # "exec")
        /\ (pc = "exec" /\ pc' # "exec")
           => LET e == appended'[Len(appended')]
                  failed == IF Querying(pc')
                            THEN send'.prompt.returncode # 0
                            ELSE /\ result' # <<>>
                                 /\ result'[1] = "Command returned code "
              IN  /\ appended' = Append(appended, e)
                  /\ e.type = (IF failed THEN "error" ELSE "output")
                  /\ Len(context_history') =
                         (IF Len(context_history) < max_context_length
                          THEN Len(context_history) + 1
                          ELSE max_context_length)
                  /\ context_history'[Len(context_history')] = e
                  /\ \A i \in 1..(Len(context_history') - 1) :
                         context_history'[i] =
                             context_history[i + Len(context_history) + 1
                                               - Len(context_history')]
                  /\ Querying(pc')
                     => /\ send'.purpose \in {"continuation_error", "continuation_output"}
                        /\ n_queries' = n_queries + 1 ]_vars

\* C28 witness: two commands were dispatched, the first ended with exit code 0 though
\* it wrote to stderr, the second failed without writing anything; the log holds an
\* output entry and an error entry, and the continuation query is in flight.
C28_Witness ==
    /\ pc = "send"
    /\ send.purpose = "continuation_error"
    /\ send.prompt.returncode # 0
    /\ Len(appended) = 2
    /\ appended[1].type = "output"
    /\ appended[2].type = "error"
    /\ appended[2].content = ErrorMsg([stdout |-> <<>>, stderr |-> <<>>, returncode |-> 1])
    /\ context_history = appended

\* A reply that the decoder takes: after the fences are removed it holds an object
\* that json.loads accepts
Decodes(text) ==
    LET x == ExtractJson(FenceSub(text))
    IN  x.ok /\ JsonLoads(x.text).ok

\* C29: a continuation reply that cannot be decoded, after a successful command or
\* after a failed one, ends the turn with the reply's cleaned text as the result.
C29_UndecodableContinuationIsFinalAnswer ==
    [][ ( /\ pc = "received"
          /\ send.purpose \in {"continuation_error", "continuation_output"}
          /\ ~Decodes(send.reply) )
        => ( /\ pc' = "idle"
             /\ ~current_task'
             /\ result' = Strip(FenceSub(send.reply)) ) ]_vars

\* C30: every prompt of the control loop, the initial one and each continuation after
\* a command, holds the log as it stood when the prompt was built; the log does not
\* change while the query is in flight.
C30_EveryPromptHoldsTheLog ==
    ( /\ pc \in {"limiter", "send", "backoff", "received"}
      /\ send.purpose \in {"initial", "continuation_error", "continuation_output"} )
    => ( /\ "context" \in DOMAIN send.prompt
         /\ send.prompt.context = context_history )

\* C31: when the operator declines, the turn ends with the refusal text as its
\* result: the command is not dispatched, the log and the failure counter are as
\* they were, and no model query is begun.
C31_RefusalIsANormalOutcome ==
    [][ (pc = "confirm" /\ confirmation' = "no")
        => ( /\ pc' = "idle"
             /\ ~current_task'
             /\ result' = CanceledByUser
             /\ appended' = appended
             /\ context_history' = context_history
             /\ consecutive_failures' = consecutive_failures
             /\ n_queries' = n_queries
             /\ send' = send ) ]_vars

\* C31 witness: a command failed and was logged, the next one was declined; the turn
\* is over with the refusal as its result and one failure still counted.
C31_Witness ==
    /\ pc = "idle"
    /\ confirmation = "no"
    /\ result = CanceledByUser
    /\ consecutive_failures = 1
    /\ Len(appended) = 1
    /\ appended[1].type = "error"

\* C32: a failed attempt that is not the last is followed by a sleep, asked to last
\* the configured delay after a rate-limit or quota failure and 1 s after any other
\* failure (an empty reply, a failure of the limiter); the next attempt begins only
\* when that time has passed, and the last attempt is followed by no sleep.
C32_BackoffBetweenAttempts ==
    /\ [](pc = "backoff" => send.attempt < config.max_attempts - 1)
    /\ [][ (pc = "send" /\ pc' = "backoff")
           => /\ last_error' # "none"
              /\ retry_wake_at' =
                     now + (IF last_error' = "429 quota exceeded"
                            THEN config.delay_between_retries ELSE 1) ]_vars
    /\ [][ (pc = "backoff" /\ pc' # "backoff")
           => /\ now >= retry_wake_at
              /\ pc' = "send"
              /\ send'.attempt = send.attempt + 1 ]_vars
    /\ [][ send'.attempt > send.attempt => pc = "backoff" ]_vars
    /\ [][ (pc = "send" /\ pc' = "idle") => UNCHANGED << now, retry_wake_at >> ]_vars

\* C32 witness: the model call granted at time 0 failed with a quota error, the
\* wrapper slept the configured 40 s and its second attempt has just begun.
C32_Witness ==
    /\ pc = "send"
    /\ send.attempt = 1
    /\ last_error = "429 quota exceeded"
    /\ n_calls = 1
    /\ grants = <<0>>
    /\ now = 40
    /\ rl_outcome = "none"

\* C33: once an interrupt has been signalled during the execution of a command, the
\* turn dispatches no further command and begins no model call, and when it ends it
\* returns the cancelled result.
C33_InterruptedCommandEndsTheTurn ==
    [][ (current_task /\ interrupted_in = "exec")
        => ( /\ pc' = "exec" => pc = "exec"
             /\ pc' = "send" => pc = "send"
             /\ pc' = "idle" => result' = CancelledResult ) ]_vars

\* C34: a render leaves the log as it is, a render that follows a render with no
\* append in between gives the same text, and an append leaves the entries it keeps
\* as they were and in their order.
C34_RenderingChangesNothing ==
    /\ [][ appended' = appended => context_history' = context_history ]_vars
    /\ [][ ( /\ rendered # NoRender
             /\ rendered.appends = Len(appended)
             /\ appended' = appended )
           => rendered'.text = rendered.text ]_vars
    /\ [][ appended' # appended
           => LET k == Len(context_history')
                  d == Len(context_history) + 1 - k
              IN  \A i \in 1..(k - 1) : context_history'[i] = context_history[i + d] ]_vars

\* C34 witness: the log is full and has dropped its oldest entry; it was rendered
\* twice since the last append, and the text has one line an entry.
C34_Witness ==
    /\ rendered.again
    /\ rendered.appends = Len(appended)
    /\ Len(appended) > Len(context_history)
    /\ Len(context_history) = 2
    /\ Len(rendered.text) = 2
    /\ rendered.text = Render(context_history)

\* C35: when deep reasoning has failed and execute_step is called again with the
\* original envelope, the command of that envelope goes to the confirmation prompt
\* or to dispatch, by the rule of any other envelope.
C35_FallbackRunsTheOriginalStep ==
    [][ ( /\ pc = "decide"
          /\ fell_back
          /\ env.next_step.tag = "obj"
          /\ env.next_step.command # <<>> )
        => pc' \in {"confirm", "exec"} ]_vars

\* What the parser says of a reply it cannot use
ParserMessages ==
    ({NoValidJson} \cup { JsonLoads(ExtractJson(FenceSub(t)).text).error : t \in Replies })
    \ {<<>>}

\* C36: an envelope is taken only from the reply of a model query, and the result of a
\* step that read no model reply is never a message of the parser: the text of an
\* envelope and the output of a command are not parsed.
C36_OnlyModelRepliesAreParsed ==
    /\ [][ (pc' = "decide" /\ pc # "received") => env' = env ]_vars
    /\ [][ (pc # "received" /\ pc' = "idle")
           => result' \notin ParserMessages ]_vars

\* C37: with no invocation in flight, an invocation is processed: it sends the
\* initial query, whatever the input of the invocation before it was.
C37_ReturnedInputIsProcessedAgain ==
    [][ (pc = "idle" /\ ~current_task)
        => ( /\ Querying(pc')
             /\ send'.purpose = "initial"
             /\ n_queries' = n_queries + 1
             /\ result' # AlreadyProcessing ) ]_vars

\* C38: the failure counter is written when a dispatched command has ended and at no
\* other step, and there once by the exit code: 0 after exit code 0, one more than
\* before after any other.
C38_OnlyExitCodesMoveTheCounter ==
    /\ [][ consecutive_failures' # consecutive_failures
           => (pc = "exec" /\ pc' # "exec") ]_vars
    /\ [][ (pc = "exec" /\ pc' # "exec" /\ appended' # appended)
           => consecutive_failures' =
                  (IF appended'[Len(appended')].type = "error"
                   THEN consecutive_failures + 1 ELSE 0) ]_vars

\* C39: in every reachable state of the rate limiter the recorded
\* timestamps are in non-decreasing order, so the first one is the oldest
\* grant of the window; whenever the window holds a timestamp,
\* last_request_time is the newest one; and every grant leaves
\* last_request_time equal to the timestamp it has just recorded at the
\* right end of the window.
C39_WindowIsOrderedAndStamped ==
    /\ [](\A i, j \in 1..Len(request_times) :
            i < j => request_times[i] <= request_times[j])
    /\ [](request_times # <<>> =>
            last_request_time = <<request_times[Len(request_times)]>>)
    /\ [][Len(grants') > Len(grants) =>
            /\ request_times' # <<>>
            /\ request_times'[Len(request_times')] = now'
            /\ last_request_time' = <<request_times'[Len(request_times')]>>
            /\ \A i \in 1..Len(request_times') :
                   request_times'[1] <= request_times'[i]]_vars

\* A third grant has been recorded in a window that holds two timestamps
\* taken at different times, the older one first, and last_request_time
\* is the newer one.
C39_Witness ==
    /\ Len(grants) = 3
    /\ Len(request_times) = 2
    /\ request_times[1] < request_times[2]
    /\ last_request_time = <<request_times[2]>>
    /\ rl_pc = "idle"

====
